---- MODULE Spec2Model ----
(***************************************************************************)
(* Model of the installation-state classification and legacy-migration     *)
(* logic of scripts/manual_install_acw.sh (Autocaliweb manual installer).  *)
(*                                                                         *)
(* The script is a sequential bash program run with `set -e`; the model    *)
(* follows one run.  File-system and host facts the script reads (files,   *)
(* directories, mount points, sqlite results) are inputs fixed by Init.    *)
(***************************************************************************)
EXTENDS Integers, Sequences, FiniteSets, TLC

VARIABLES
    pc,                     \* position of the run
    exit_code,              \* -1 while running, else the process exit status
    host,                   \* facts read by detect_and_classify_installation
    SERVICE_USER,
    REAL_USER,
    EXISTING_INSTALLATION,
    IS_UPDATE,
    IS_LEGACY_MIGRATION,
    GIT_CHECK_USER,
    probed,                 \* the users check_if_git_repo ran its probe as
    SCRIPT_SOURCE_DIR,
    SCENARIO,
    INSTALL_DIR,            \* target paths (options / environment)
    CONFIG_DIR,
    CALIBRE_LIB_DIR,
    dirs,                   \* the directories that exist on the host
    db,                     \* state of $CONFIG_DIR/app.db
    settings,               \* the row of its settings table
    settings_at_entry,      \* that row when update_app_db_settings started
    tools,                  \* what `which` finds for the helper binaries
    UNRAR_PATH,
    CURRENT_LOGFILE,
    CURRENT_ACCESS_LOGFILE,
    CURRENT_CALIBRE_DIR,
    settings_rc,            \* return status of update_app_db_settings
    ACCEPT_ALL,
    ALLOW_LOW_SPACE,
    unit_enabled,           \* systemctl is-enabled autocaliweb.service
    sentinel,               \* per component: its legacy sentinel file
    legacy_tables,          \* tables in the legacy app.db, -1 if unreadable
    du_mb,                  \* du -s --block-size=1M of each legacy directory
    mounts,                 \* the directories that are mount points
    df_unreadable,          \* directories on which df fails
    migrate_components,
    total_legacy_size_mb,
    required_for_migration_mb,
    unique_target_mount_points,
    checks,                 \* the check_disk_space calls made, in order
    venv,                   \* virtualenv directories under $INSTALL_DIR
    target_metadata,        \* $CALIBRE_LIB_DIR/metadata.db before the run
    legacy_extra,           \* further database files in the legacy trees
    legacy_pyc,             \* bytecode exists under $LEGACY_INSTALL_DIR
    user_home,              \* [[ -d "$USER_HOME" ]]
    home_writable,          \* cp into $USER_HOME succeeds
    backups,                \* files copied to $USER_HOME
    events,                 \* prompts and file-system changes, in order
    component_index,        \* position of the executor's component loop
    REPLY,                  \* the last answer read by print_prompt
    svc,                    \* the service manager: systemctl and the unit
    service_user_exists,    \* id -u "$SERVICE_USER"
    worker,                 \* pgrep finds a matching worker process
    attempt,                \* local attempt of the stop routine
    final_status,           \* local final_status of ultimate_service_stop
    stop_rc,                \* status the stop routine returned, -1 before
    presence_checks,        \* pgrep calls made by the stop routine
    signals,                \* signals sent to the worker processes, in order
    errexit,                \* set -e is in effect where the routine is called
    unit_ops,               \* requests made to the service manager, in order
    entry_files,            \* entry-point files that exist under $INSTALL_DIR
    exclude_dir,            \* [ -d "$INSTALL_DIR/.git/info" ]
    exclude_lines,          \* the lines of .git/info/exclude, in order
    exclude_terminated,     \* its last line ends with a newline
    exclude_at_entry,       \* the file before git_exclude_file_path ran
    exclude_runs,           \* completed passes of git_exclude_file_path
    env_file,               \* the lines of /etc/autocaliweb/environment
    env_written_dir,        \* $INSTALL_DIR of the run that wrote the file
    run_no,                 \* which run of the installer this is
    repo,                   \* the git work tree under $INSTALL_DIR
    git_ops,                \* the git commands run by su, with their user
    heartbeat,              \* the background task of run_with_progress lives
    trap_set,               \* its EXIT INT TERM trap is installed
    pending_signal,         \* a trapped signal waits for the command to end
    cmd_status,             \* status of the wrapped command, -1 before
    signals_received,       \* INT / TERM signals delivered to the shell
    cmd,                    \* local cmd=("$@") of run_with_progress
    DEBUG_MODE

classifyVars == << host, SERVICE_USER, REAL_USER, EXISTING_INSTALLATION,
                   IS_UPDATE, IS_LEGACY_MIGRATION, GIT_CHECK_USER, probed,
                   SCRIPT_SOURCE_DIR, SCENARIO >>

pathVars == << INSTALL_DIR, CONFIG_DIR, CALIBRE_LIB_DIR >>

settingsVars == << db, settings, settings_at_entry, tools, UNRAR_PATH,
                   CURRENT_LOGFILE, CURRENT_ACCESS_LOGFILE,
                   CURRENT_CALIBRE_DIR, settings_rc >>

flagVars == << ACCEPT_ALL, ALLOW_LOW_SPACE >>

legacyVars == << unit_enabled, sentinel, legacy_tables, du_mb, mounts,
                 df_unreadable >>

planVars == << migrate_components, total_legacy_size_mb,
               required_for_migration_mb, unique_target_mount_points,
               checks >>

execVars == << venv, target_metadata, legacy_extra, legacy_pyc, user_home,
              home_writable, backups, events, component_index, REPLY >>

stopVars == << svc, service_user_exists, worker, attempt, final_status,
              stop_rc, presence_checks, signals, errexit >>

startVars == << unit_ops, entry_files >>

excludeVars == << exclude_dir, exclude_lines, exclude_terminated,
                 exclude_at_entry, exclude_runs >>

envVars == << env_file, env_written_dir, run_no >>

gitVars == << repo, git_ops >>

progressVars == << heartbeat, trap_set, pending_signal, cmd_status,
                  signals_received, cmd, DEBUG_MODE >>

moreVars == << excludeVars, envVars, gitVars, progressVars >>

opsVars == << stopVars, startVars, moreVars >>

vars == << pc, exit_code, classifyVars, pathVars, dirs, settingsVars,
           flagVars, legacyVars, planVars, execVars, opsVars >>

(***************************************************************************)
(* Program constants (script header).                                      *)
(***************************************************************************)
LEGACY_INSTALL_DIR == "/app/autocaliweb"
LEGACY_CONFIG_DIR == "/config"
LEGACY_CALIBRE_LIB_DIR == "/calibre-library"
LEGACY_SERVICE_USER == "abc"

\* Accounts that exist on the modelled host.
Users == {"abc", "root", "acw", "alice"}

\* Where the script itself lives when it runs from scripts/ of a source tree.
SourceTreeDir == "/home/alice/autocaliweb"

(***************************************************************************)
(* check_if_git_repo                                                       *)
(***************************************************************************)
RECURSIVE DedupFrom(_, _)
\* awk '!seen[$0]++' : keep the first occurrence of every line, in order
DedupFrom(s, seen) ==
    IF s = << >> THEN << >>
    ELSE IF Head(s) \in seen THEN DedupFrom(Tail(s), seen)
         ELSE << Head(s) >> \o DedupFrom(Tail(s), seen \cup {Head(s)})

Dedup(s) == DedupFrom(s, {})

\* A variant that tries root before the legacy service account.
GitCandidatesRootFirst(legacy, h, service_user, real_user) ==
    Dedup(<< "root", LEGACY_SERVICE_USER >>
          \o (IF legacy /\ h.legacyDir /\ h.legacyOwner # ""
              THEN << h.legacyOwner >> ELSE << >>)
          \o << service_user, real_user >>)

\* The candidate users of check_if_git_repo, in priority order.
GitCandidates(legacy, h, service_user, real_user) ==
    Dedup(<< LEGACY_SERVICE_USER >>
          \o (IF legacy /\ h.legacyDir /\ h.legacyOwner # ""
              THEN << h.legacyOwner >> ELSE << >>)
          \o << "root", service_user, real_user >>)

RECURSIVE FirstReadable(_, _)
\* The for loop: the first candidate whose probe succeeds, "" when none does.
FirstReadable(cands, readable) ==
    IF cands = << >> THEN ""
    ELSE IF Head(cands) \in readable THEN Head(cands)
         ELSE FirstReadable(Tail(cands), readable)

RECURSIVE ProbesTried(_, _)
\* The users the for loop runs the probe as: it breaks on the first success.
ProbesTried(cands, readable) ==
    IF cands = << >> THEN << >>
    ELSE IF Head(cands) \in readable THEN << Head(cands) >>
         ELSE << Head(cands) >> \o ProbesTried(Tail(cands), readable)

\* The directory the probe `git -C ... rev-parse --is-inside-work-tree` is
\* run in: "$INSTALL_DIR", whatever directory was passed as "$1".
ProbedPath(dir, install_dir) == install_dir

\* The users for which the probe of check_if_git_repo "$dir" succeeds.
ProbeSucceedsFor(h, dir, install_dir) ==
    IF ProbedPath(dir, install_dir) \in h.gitTrees
    THEN h.gitReadableBy ELSE {}

(***************************************************************************)
(* Installation state, the first if/else of                                *)
(* detect_and_classify_installation.                                       *)
(***************************************************************************)
\* [[ -f "/etc/systemd/system/autocaliweb.service" ]]
ClassifyExisting(h) == h.unitFile

\* A variant that calls every host without environment file legacy.
ClassifyLegacyNoEnvFile(h) == ~h.envFile

\* unit file present and /etc/autocaliweb/environment absent
ClassifyLegacy(h) == h.unitFile /\ ~h.envFile

\* CURR_INSTALL_PATH / SCRIPT_SOURCE_DIR: the argument of check_if_git_repo
PathPassedToGitCheck(h, existing, legacy, script_source_dir) ==
    IF existing
    THEN (IF legacy THEN LEGACY_INSTALL_DIR ELSE h.envInstallDir)
    ELSE script_source_dir

(***************************************************************************)
(* Scenario resolution, the if/elif chain that ends                        *)
(* detect_and_classify_installation.                                       *)
(***************************************************************************)
ResolveNoSourceFirst(is_git_repo, has_template, has_requirements, in_source_tree) ==
    IF ~(has_requirements \/ in_source_tree) THEN "no_source"
    ELSE IF is_git_repo
         THEN (IF has_template THEN "git_repo_with_template"
               ELSE "git_repo_without_template")
         ELSE IF has_template THEN "extracted_with_template"
         ELSE IF has_requirements THEN "extracted_without_template"
         ELSE "outside_without_template"

ResolveScenario(is_git_repo, has_template, has_requirements, in_source_tree) ==
    IF is_git_repo
    THEN (IF has_template THEN "git_repo_with_template"
          ELSE "git_repo_without_template")
    ELSE IF has_template THEN "extracted_with_template"
    ELSE IF has_requirements THEN "extracted_without_template"
    ELSE IF in_source_tree THEN "outside_without_template"
    ELSE "no_source"

(***************************************************************************)
(* detect_and_classify_installation (with the calls it makes:              *)
(* check_if_git_repo, git_exclude_file_path, detect_script_location).      *)
(* The script runs under set -e: a failing grep of the environment file    *)
(* or git_exclude_file_path returning 1 ends the run.                      *)
(***************************************************************************)
detect_and_classify_installation ==
    /\ pc = "classify"
    /\ LET existing == ClassifyExisting(host)
           legacy == ClassifyLegacy(host)
           grepFails == existing /\ ~legacy /\ ~host.envHasKey
           dir == PathPassedToGitCheck(host, existing, legacy,
                                       SCRIPT_SOURCE_DIR)
           candidates == GitCandidates(legacy, host, SERVICE_USER, REAL_USER)
           readable == ProbeSucceedsFor(host, dir, INSTALL_DIR)
           owner == FirstReadable(candidates, readable)
           is_git_repo == owner # ""
           excludeFails == is_git_repo /\ ~host.gitInfoDir
           usesScriptLocation == ~is_git_repo /\ ~host.template
                                 /\ ~host.requirements
       IN  /\ EXISTING_INSTALLATION' = existing
           /\ IS_UPDATE' = existing
           /\ IS_LEGACY_MIGRATION' = legacy
           /\ IF grepFails
              THEN /\ pc' = "exited"
                   /\ exit_code' = 1
                   /\ UNCHANGED << GIT_CHECK_USER, probed, SCRIPT_SOURCE_DIR,
                                   SCENARIO >>
              ELSE /\ GIT_CHECK_USER' = owner
                   /\ probed' = ProbesTried(candidates, readable)
                   /\ IF excludeFails
                      THEN /\ pc' = "exited"
                           /\ exit_code' = 1
                           /\ UNCHANGED << SCRIPT_SOURCE_DIR, SCENARIO >>
                      ELSE /\ pc' = "classified"
                           /\ exit_code' = exit_code
                           /\ SCRIPT_SOURCE_DIR' =
                                IF usesScriptLocation
                                THEN (IF host.scriptInSource
                                      THEN SourceTreeDir ELSE "")
                                ELSE SCRIPT_SOURCE_DIR
                           /\ SCENARIO' = ResolveScenario(
                                             is_git_repo, host.template,
                                             host.requirements,
                                             host.scriptInSource)
    /\ UNCHANGED << host, SERVICE_USER, REAL_USER, pathVars, dirs,
                    settingsVars, flagVars, opsVars, legacyVars, planVars, execVars >>

(***************************************************************************)
(* Paths.  dirname(1) on the paths of the modelled host.                   *)
(***************************************************************************)
Dirname(p) ==
    CASE p = "/opt/autocaliweb/config" -> "/opt/autocaliweb"
      [] p = "/opt/autocaliweb" -> "/opt"
      [] p = "/srv/calibre-library" -> "/srv"
      [] p = "/app/autocaliweb" -> "/app"
      [] p = "/mnt/data/acw" -> "/mnt/data"
      [] p = "/mnt/data/acw/config" -> "/mnt/data/acw"
      [] p = "/mnt/data/library" -> "/mnt/data"
      [] p = "/mnt/data" -> "/mnt"
      [] p = "/usr/bin/ebook-convert" -> "/usr/bin"
      [] p = "/opt/calibre/ebook-convert" -> "/opt/calibre"
      [] OTHER -> "/"

(***************************************************************************)
(* update_app_db_settings                                                  *)
(***************************************************************************)
\* `which kepubify 2>/dev/null || echo "/usr/bin/kepubify"`
KEPUBIFY_PATH(t) == IF t.kepubify = "" THEN "/usr/bin/kepubify" ELSE t.kepubify

\* `which ebook-convert 2>/dev/null || echo "/usr/bin/ebook-convert"`
EBOOK_CONVERT_PATH(t) ==
    IF t.ebook_convert = "" THEN "/usr/bin/ebook-convert" ELSE t.ebook_convert

CALIBRE_BIN_DIR(t) == Dirname(EBOOK_CONVERT_PATH(t))

\* A variant that also resets the listening port to its default.
BinaryPathsUpdateAndPort(row, t) ==
    [row EXCEPT !.config_kepubifypath = KEPUBIFY_PATH(t),
                !.config_converterpath = EBOOK_CONVERT_PATH(t),
                !.config_binariesdir = CALIBRE_BIN_DIR(t),
                !.config_port = "8083"]

\* "Always update binary paths (safe to overwrite)"
BinaryPathsUpdate(row, t) ==
    [row EXCEPT !.config_kepubifypath = KEPUBIFY_PATH(t),
                !.config_converterpath = EBOOK_CONVERT_PATH(t),
                !.config_binariesdir = CALIBRE_BIN_DIR(t)]

\* A variant that follows the comment ("starts with /tmp") for one more path.
LogfileIsInvalidAnyTmp(v) ==
    \/ v = ""
    \/ v = "autocaliweb.log"
    \/ v = "/tmp/autocaliweb.log"
    \/ v = "/tmp/custom.log"
    \/ v = "/config/autocaliweb.log"

\* LOG FILE CHECK
LogfileIsInvalid(v) ==
    \/ v = ""
    \/ v = "autocaliweb.log"
    \/ v = "/tmp/autocaliweb.log"
    \/ v = "/config/autocaliweb.log"

\* ACCESS LOG CHECK
AccessLogfileIsInvalid(v) ==
    \/ v = ""
    \/ v = "access.log"
    \/ v = "/tmp/access.log"
    \/ v = "/config/access.log"

\* CALIBRE DIR CHECK
CalibreDirIsInvalid(v, existing) ==
    \/ v = ""
    \/ v = "/"
    \/ v = "/calibre"
    \/ v \notin existing

update_app_db_settings ==
    /\ pc = "settings"
    /\ settings_at_entry' = settings
    /\ IF db = "missing"
       THEN \* [ ! -f "$CONFIG_DIR/app.db" ] : warn, return 1
            /\ settings_rc' = 1
            /\ pc' = "settings_done"
            /\ UNCHANGED << settings, exit_code, CURRENT_LOGFILE,
                            CURRENT_ACCESS_LOGFILE, CURRENT_CALIBRE_DIR >>
       ELSE IF db = "locked"
       THEN \* the SELECTs fall back to "", the first UPDATE fails: set -e
            /\ CURRENT_LOGFILE' = ""
            /\ CURRENT_ACCESS_LOGFILE' = ""
            /\ CURRENT_CALIBRE_DIR' = ""
            /\ pc' = "exited"
            /\ exit_code' = 1
            /\ UNCHANGED << settings, settings_rc >>
       ELSE /\ CURRENT_LOGFILE' = settings.config_logfile
            /\ CURRENT_ACCESS_LOGFILE' = settings.config_access_logfile
            /\ CURRENT_CALIBRE_DIR' = settings.config_calibre_dir
            /\ LET r1 == BinaryPathsUpdate(settings, tools)
                   r2 == IF LogfileIsInvalid(settings.config_logfile)
                         THEN [r1 EXCEPT !.config_logfile =
                                    CONFIG_DIR \o "/autocaliweb.log"]
                         ELSE r1
                   r3 == IF AccessLogfileIsInvalid(
                                settings.config_access_logfile)
                         THEN [r2 EXCEPT !.config_access_logfile =
                                    CONFIG_DIR \o "/access.log"]
                         ELSE r2
                   r4 == IF CalibreDirIsInvalid(settings.config_calibre_dir,
                                                dirs)
                         THEN [r3 EXCEPT !.config_calibre_dir =
                                    CALIBRE_LIB_DIR]
                         ELSE r3
               IN  settings' = [r4 EXCEPT !.config_rarfile_location =
                                    UNRAR_PATH]
            /\ settings_rc' = 0
            /\ pc' = "settings_done"
            /\ UNCHANGED exit_code
    /\ UNCHANGED << classifyVars, pathVars, dirs, db, tools, UNRAR_PATH,
                    flagVars, opsVars, legacyVars, planVars, execVars >>

(***************************************************************************)
(* detect_existing_legacy_installation: which components to migrate.       *)
(***************************************************************************)
ComponentOrder == << "app_source", "config_data", "calibre_library" >>

Components == {"app_source", "config_data", "calibre_library"}

LegacyDirOf(c) ==
    CASE c = "app_source" -> LEGACY_INSTALL_DIR
      [] c = "config_data" -> LEGACY_CONFIG_DIR
      [] c = "calibre_library" -> LEGACY_CALIBRE_LIB_DIR

TargetOf(c) ==
    CASE c = "app_source" -> INSTALL_DIR
      [] c = "config_data" -> CONFIG_DIR
      [] c = "calibre_library" -> CALIBRE_LIB_DIR

\* [[ -d "$LEGACY_X" ]] && [[ -f "$LEGACY_X/<sentinel>" ]]
SentinelFound(c) == LegacyDirOf(c) \in dirs /\ sentinel[c] # "absent"

\* sqlite3 ... "SELECT COUNT(*) FROM sqlite_master ..." 2>/dev/null || echo "0"
table_count == IF legacy_tables < 0 THEN 0 ELSE legacy_tables

\* A variant with -ge in place of -gt.
LooksLikeUserDataGe(n) == n >= 5

\* [ "$table_count" -gt 5 ] : heuristic to check for actual user data
LooksLikeUserData(n) == n > 5

\* A variant that requires a non-empty sentinel (-s) of every component.
NeedsMigrationAllNonEmpty(c) ==
    /\ SentinelFound(c)
    /\ sentinel[c] = "data"
    /\ TargetOf(c) # LegacyDirOf(c)
    /\ (c = "config_data" => LooksLikeUserData(table_count))

\* A variant that does not compare the library paths.
NeedsMigrationNoLibraryPathCheck(c) ==
    CASE c = "app_source" ->
            SentinelFound(c) /\ INSTALL_DIR # LEGACY_INSTALL_DIR
      [] c = "config_data" ->
            /\ SentinelFound(c)
            /\ sentinel[c] = "data"
            /\ CONFIG_DIR # LEGACY_CONFIG_DIR
            /\ LooksLikeUserData(table_count)
      [] c = "calibre_library" -> SentinelFound(c)

\* The three tests that append to migrate_components.
NeedsMigration(c) ==
    CASE c = "app_source" ->
            SentinelFound(c) /\ INSTALL_DIR # LEGACY_INSTALL_DIR
      [] c = "config_data" ->
            /\ SentinelFound(c)
            /\ sentinel[c] = "data"
            /\ CONFIG_DIR # LEGACY_CONFIG_DIR
            /\ LooksLikeUserData(table_count)
      [] c = "calibre_library" ->
            SentinelFound(c) /\ CALIBRE_LIB_DIR # LEGACY_CALIBRE_LIB_DIR

SelectComponents == SelectSeq(ComponentOrder, NeedsMigration)

(***************************************************************************)
(* Size estimate and target mount points.                                  *)
(***************************************************************************)
RECURSIVE SumDu(_)
\* the while-read loop over the lines of du: one line per existing directory
SumDu(ds) ==
    IF ds = << >> THEN 0
    ELSE (IF Head(ds) \in dirs THEN du_mb[Head(ds)] ELSE 0) + SumDu(Tail(ds))

RECURSIVE MaxDu(_)
MaxDu(ds) ==
    IF ds = << >> THEN 0
    ELSE LET h == IF Head(ds) \in dirs THEN du_mb[Head(ds)] ELSE 0
             t == MaxDu(Tail(ds))
         IN  IF h > t THEN h ELSE t

\* A variant that reports the largest directory instead of the total.
get_largest_directory_size_mb(ds) ==
    IF ds = << >> \/ Head(ds) \notin dirs THEN 0 ELSE MaxDu(ds)

get_total_directory_size_mb(ds) ==
    IF ds = << >> \/ Head(ds) \notin dirs THEN 0 ELSE SumDu(ds)

\* dirs_to_measure+=("$LEGACY_X") for every selected component
LegacyDirsOf(comps) == [i \in 1 .. Len(comps) |-> LegacyDirOf(comps[i])]

\* target_filesystems_raw+=("$X_DIR") for every selected component
TargetsOf(comps) == [i \in 1 .. Len(comps) |-> TargetOf(comps[i])]

RECURSIVE NearestExisting(_)
\* walk up with dirname until the path exists (or "/" is reached)
NearestExisting(p) ==
    IF p \in dirs \/ p = "/" THEN p ELSE NearestExisting(Dirname(p))

RECURSIVE MountOf(_)
\* column 6 of `df -P <dir>`: the mount point the directory lives on
MountOf(d) == IF d \in mounts \/ d = "/" THEN d ELSE MountOf(Dirname(d))

\* fs_mount_point of one target path, "" when df fails
MountPointOfTarget(p) ==
    LET check_path == NearestExisting(p)
    IN  IF check_path \in df_unreadable THEN "" ELSE MountOf(check_path)

RECURSIVE CollectMounts(_, _)
\* A variant without the "already in our unique list" test.
CollectMounts(paths, acc) ==
    IF paths = << >> THEN acc
    ELSE LET mp == MountPointOfTarget(Head(paths))
         IN  CollectMounts(Tail(paths),
                           IF mp # "" THEN Append(acc, mp) ELSE acc)

RECURSIVE CollectUniqueMounts(_, _)
\* the loop that fills unique_target_mount_points
CollectUniqueMounts(paths, acc) ==
    IF paths = << >> THEN acc
    ELSE LET mp == MountPointOfTarget(Head(paths))
             found == \E i \in 1..Len(acc) : acc[i] = mp
         IN  CollectUniqueMounts(Tail(paths),
                                 IF ~found /\ mp # "" THEN Append(acc, mp)
                                 ELSE acc)

\* The first part of detect_existing_legacy_installation: component
\* selection, size estimate, unique target mount points.
PlanMigration ==
    /\ pc = "plan"
    /\ LET comps == SelectComponents
           dirs_to_measure == LegacyDirsOf(comps)
           target_filesystems_raw == TargetsOf(comps)
           total == get_total_directory_size_mb(dirs_to_measure)
           ump == CollectUniqueMounts(target_filesystems_raw, << >>)
       IN  /\ migrate_components' = comps
           /\ EXISTING_INSTALLATION' =
                (EXISTING_INSTALLATION \/ unit_enabled)
           /\ IF comps = << >>
              THEN /\ pc' = "no_migration"
                   /\ UNCHANGED << total_legacy_size_mb,
                                   required_for_migration_mb,
                                   unique_target_mount_points >>
              ELSE /\ total_legacy_size_mb' = total
                   /\ required_for_migration_mb' = (total * 120) \div 100
                   /\ unique_target_mount_points' = ump
                   /\ pc' = IF ump = << >> THEN "confirm" ELSE "space_check"
    /\ UNCHANGED << exit_code, host, SERVICE_USER, REAL_USER, IS_UPDATE,
                    IS_LEGACY_MIGRATION, GIT_CHECK_USER, probed,
                    SCRIPT_SOURCE_DIR, SCENARIO, pathVars, dirs, settingsVars,
                    flagVars, opsVars, legacyVars, checks, execVars >>

(***************************************************************************)
(* check_disk_space, as called for each unique target mount point.         *)
(***************************************************************************)
\* A variant that ignores --allow-low-space.
DiskSpaceOutcomeEnforced(available_space_mb, required_space_mb, dry_run) ==
    IF available_space_mb < required_space_mb THEN "fatal" ELSE "passed"

DiskSpaceOutcome(available_space_mb, required_space_mb, dry_run) ==
    IF available_space_mb < required_space_mb
    THEN (IF dry_run = 1 THEN "warned" ELSE "fatal")
    ELSE "passed"

\* What `df -P -k` may report as available, in KB.
AvailableKb == {1100 * 1024, 1200 * 1024 - 1, 1200 * 1024}

check_disk_space ==
    /\ pc = "space_check"
    /\ Len(checks) < Len(unique_target_mount_points)
    /\ LET target == unique_target_mount_points[Len(checks) + 1]
           check_path == NearestExisting(target)
           last == Len(checks) + 1 = Len(unique_target_mount_points)
       IN  IF check_path \in df_unreadable
           THEN \* "Failed to check disk space": return 1, set -e ends the run
                /\ checks' = Append(checks,
                        [path |-> target, available_mb |-> -1,
                         required_mb |-> required_for_migration_mb,
                         outcome |-> "df_failed"])
                /\ pc' = "exited"
                /\ exit_code' = 1
           ELSE \E available_space_kb \in AvailableKb :
                LET available_space_mb == available_space_kb \div 1024
                    outcome == DiskSpaceOutcome(available_space_mb,
                                                required_for_migration_mb,
                                                ALLOW_LOW_SPACE)
                IN  /\ checks' = Append(checks,
                            [path |-> check_path,
                             available_mb |-> available_space_mb,
                             required_mb |-> required_for_migration_mb,
                             outcome |-> outcome])
                    /\ IF outcome = "fatal"
                       THEN pc' = "exited" /\ exit_code' = 1
                       ELSE /\ pc' = IF last THEN "confirm" ELSE "space_check"
                            /\ UNCHANGED exit_code
    /\ UNCHANGED << classifyVars, pathVars, dirs, settingsVars, flagVars, opsVars,
                    legacyVars, migrate_components, total_legacy_size_mb,
                    required_for_migration_mb, unique_target_mount_points,
                    execVars >>

(***************************************************************************)
(* main, between detect_and_classify_installation and the planner:         *)
(* migrate_legacy_venv.                                                    *)
(***************************************************************************)
Event(op, arg) == [op |-> op, arg |-> arg]

migrate_legacy_venv ==
    /\ pc = "classified"
    /\ IS_LEGACY_MIGRATION
    /\ IF "venv" \in venv /\ ".venv" \notin venv
       THEN \E mv_ok \in BOOLEAN :
                IF mv_ok
                THEN /\ venv' = {".venv"}
                     /\ events' = Append(events,
                                         Event("rename_venv", INSTALL_DIR))
                     /\ pc' = "plan"
                     /\ UNCHANGED exit_code
                ELSE \* "Failed to migrate legacy venv directory. Aborting."
                     /\ pc' = "exited"
                     /\ exit_code' = 1
                     /\ UNCHANGED << venv, events >>
       ELSE /\ pc' = "plan"
            /\ UNCHANGED << exit_code, venv, events >>
    /\ UNCHANGED << classifyVars, pathVars, dirs, settingsVars, flagVars, opsVars,
                    legacyVars, planVars, target_metadata, legacy_extra,
                    legacy_pyc, user_home, home_writable, backups,
                    component_index, REPLY >>

(***************************************************************************)
(* detect_existing_legacy_installation: the confirmation before the        *)
(* executor is called.                                                     *)
(***************************************************************************)
\* What the operator may type at a prompt read with Enter.
Replies == {"y", "Y", "n", "", "yes"}

\* What the operator may type at a single-character prompt (read -n 1).
KeyReplies == {"y", "Y", "n", ""}

\* [[ "$REPLY" =~ ^[Yy]$ ]]
Accepted(reply) == reply = "y" \/ reply = "Y"

ConfirmMigration ==
    /\ pc = "confirm"
    /\ IF ACCEPT_ALL # 1
       THEN \E answer \in Replies :
                /\ REPLY' = answer
                /\ events' = Append(events, Event("prompt", "planner"))
                /\ IF Accepted(answer)
                   THEN pc' = "migrate" /\ UNCHANGED exit_code
                   ELSE \* "Migration cancelled by user."
                        pc' = "exited" /\ exit_code' = 1
       ELSE /\ pc' = "migrate"
            /\ UNCHANGED << exit_code, REPLY, events >>
    /\ UNCHANGED << classifyVars, pathVars, dirs, settingsVars, flagVars, opsVars,
                    legacyVars, planVars, venv, target_metadata, legacy_extra,
                    legacy_pyc, user_home, home_writable, backups,
                    component_index >>

(***************************************************************************)
(* migrate_existing_installation                                           *)
(***************************************************************************)
RECURSIVE Ancestors(_)
\* install -d creates the directory and its missing parents
Ancestors(p) == IF p = "/" THEN {"/"} ELSE {p} \cup Ancestors(Dirname(p))

\* prepare_service_environment, up to the account of the service user: a
\* missing account is created, an existing one is re-configured.
prepare_service_environment ==
    /\ pc = "migrate"
    /\ IF service_user_exists
       THEN \* reconfigure_service_user, which begins with the service stop
            /\ pc' = "stop_unit"
            /\ UNCHANGED exit_code
       ELSE \E useradd_ok \in BOOLEAN :
                IF useradd_ok
                THEN pc' = "accounts" /\ UNCHANGED exit_code
                ELSE \* "Failed to create service user. Aborting."
                     pc' = "exited" /\ exit_code' = 1
    /\ UNCHANGED << classifyVars, pathVars, dirs, settingsVars, flagVars,
                    opsVars, legacyVars, planVars, execVars >>

\* reconfigure_service_user once ultimate_service_stop has returned: the
\* call is a plain command, so under set -e a non-zero status ends the run.
reconfigure_service_user ==
    /\ pc = "stop_returned"
    /\ IF stop_rc # 0
       THEN /\ pc' = "exited"
            /\ exit_code' = stop_rc
       ELSE \E usermod_ok \in BOOLEAN :
                IF usermod_ok
                THEN pc' = "accounts" /\ UNCHANGED exit_code
                ELSE \* "Failed to re-configure service user home directory."
                     pc' = "exited" /\ exit_code' = 1
    /\ UNCHANGED << classifyVars, pathVars, dirs, settingsVars, flagVars,
                    opsVars, legacyVars, planVars, execVars >>

\* A variant that creates the installation directory only.
DirsAfterCreateInstallOnly(d) == d \cup Ancestors(INSTALL_DIR)

\* create_acw_directories: install -d of the target directories (those of
\* the three components are modelled); each is a plain command.
DirsAfterCreate(d) ==
    d \cup Ancestors(INSTALL_DIR) \cup Ancestors(CONFIG_DIR)
      \cup Ancestors(CALIBRE_LIB_DIR)

\* The rest of prepare_service_environment and create_acw_directories:
\* groups and target directories; a failing groupadd/usermod/install ends
\* the run.
StartMigration ==
    /\ pc = "accounts"
    /\ \E accounts_ok, install_ok \in BOOLEAN :
            IF accounts_ok /\ install_ok
            THEN /\ dirs' = DirsAfterCreate(dirs)
                 /\ events' = Append(events, Event("mkdirs", ""))
                 /\ pc' = "backup"
                 /\ UNCHANGED exit_code
            ELSE /\ pc' = "exited"
                 /\ exit_code' = 1
                 /\ UNCHANGED << dirs, events >>
    /\ UNCHANGED << classifyVars, pathVars, settingsVars, flagVars, opsVars,
                    legacyVars, planVars, venv, target_metadata, legacy_extra,
                    legacy_pyc, user_home, home_writable, backups,
                    component_index, REPLY >>

\* files_to_backup+=(...) of one component
BackupFilesOf(c) ==
    CASE c = "app_source" -> << >>
      [] c = "config_data" ->
            << "/config/app.db", "/config/acw.db", "/config/gdrive.db" >>
      [] c = "calibre_library" ->
            << "/calibre-library/metadata.db",
               "/calibre-library/.calnotes/notes.db" >>

RECURSIVE FilesToBackup(_)
\* the first loop over components_to_migrate
FilesToBackup(comps) ==
    IF comps = << >> THEN << >>
    ELSE BackupFilesOf(Head(comps)) \o FilesToBackup(Tail(comps))

\* [[ -f "$f" ]]
IsRegularFile(f) ==
    CASE f = "/config/app.db" -> SentinelFound("config_data")
      [] f = "/calibre-library/metadata.db" -> SentinelFound("calibre_library")
      [] OTHER -> f \in legacy_extra

RECURSIVE BackupEventsStopAtMissing(_)
\* A variant that gives up at the first file that is not found.
BackupEventsStopAtMissing(files) ==
    IF files = << >> THEN << >>
    ELSE IF IsRegularFile(Head(files))
         THEN << Event(IF home_writable THEN "backup" ELSE "backup_failed",
                       Head(files)) >>
              \o BackupEventsStopAtMissing(Tail(files))
         ELSE << >>

RECURSIVE BackupEvents(_)
\* the for loop of backup_files: cp every file that exists, skip the others
BackupEvents(files) ==
    IF files = << >> THEN << >>
    ELSE (IF IsRegularFile(Head(files))
          THEN << Event(IF home_writable THEN "backup" ELSE "backup_failed",
                        Head(files)) >>
          ELSE << >>)
         \o BackupEvents(Tail(files))

\* The backup step of migrate_existing_installation, with backup_files.
BackupStep ==
    /\ pc = "backup"
    /\ LET files_to_backup == FilesToBackup(migrate_components)
           copies == BackupEvents(files_to_backup)
       IN  IF files_to_backup # << >> /\ ~user_home
           THEN \* "User home directory not found": return 1 under set -e
                /\ pc' = "exited"
                /\ exit_code' = 1
                /\ UNCHANGED << backups, events, component_index >>
           ELSE /\ events' = events \o copies
                /\ backups' = backups \cup
                      { copies[i].arg : i \in { j \in 1 .. Len(copies) :
                                                  copies[j].op = "backup" } }
                /\ component_index' = 1
                /\ pc' = "transfer"
                /\ UNCHANGED exit_code
    /\ UNCHANGED << classifyVars, pathVars, dirs, settingsVars, flagVars, opsVars,
                    legacyVars, planVars, venv, target_metadata, legacy_extra,
                    legacy_pyc, user_home, home_writable, REPLY >>

\* A variant that changes the owner whether or not the transfer succeeded.
TransferEventsAlwaysChown(c, rsync_ok) ==
    << Event(IF rsync_ok THEN "transfer_ok" ELSE "transfer_failed", c),
       Event("chown", c) >>

\* if rsync ...; then chown -R ...; else print_error ...; fi
TransferEvents(c, rsync_ok) ==
    IF rsync_ok
    THEN << Event("transfer_ok", c), Event("chown", c) >>
    ELSE << Event("transfer_failed", c) >>

\* A variant of the transfer that removes what it has copied.
SentinelsAfterMove(sent, c) == [sent EXCEPT ![c] = "absent"]

\* rsync -ah "$LEGACY_X/" "$X/" reads the legacy tree and leaves it as it is.
SentinelsAfterTransfer(sent, c) == sent

\* The component the second loop is at.
component ==
    IF component_index \in 1 .. Len(migrate_components)
    THEN migrate_components[component_index] ELSE ""

\* case "app_source": purge bytecode, rsync, chown; a failed rsync is fatal.
migrate_app_source ==
    /\ pc = "transfer"
    /\ component = "app_source"
    /\ IF LEGACY_INSTALL_DIR # INSTALL_DIR
       THEN \E rsync_ok \in BOOLEAN :
            /\ legacy_pyc' = FALSE
            /\ events' = events
                    \o << Event("clean_bytecode",
                                IF legacy_pyc THEN "deleted" ELSE "none") >>
                    \o TransferEvents("app_source", rsync_ok)
            /\ sentinel' = SentinelsAfterTransfer(sentinel, "app_source")
            /\ IF rsync_ok
               THEN /\ IS_LEGACY_MIGRATION' = TRUE
                    /\ component_index' = component_index + 1
                    /\ UNCHANGED << pc, exit_code >>
               ELSE \* "Failed to migrate application source.": exit 1
                    /\ pc' = "exited"
                    /\ exit_code' = 1
                    /\ UNCHANGED << IS_LEGACY_MIGRATION, component_index >>
       ELSE \* "Application source migration skipped"
            /\ component_index' = component_index + 1
            /\ UNCHANGED << pc, exit_code, legacy_pyc, events, sentinel,
                            IS_LEGACY_MIGRATION >>
    /\ UNCHANGED << host, SERVICE_USER, REAL_USER, EXISTING_INSTALLATION,
                    IS_UPDATE, GIT_CHECK_USER, probed, SCRIPT_SOURCE_DIR,
                    SCENARIO, pathVars, dirs, settingsVars, flagVars, opsVars,
                    unit_enabled, legacy_tables, du_mb, mounts, df_unreadable,
                    planVars, venv, target_metadata, legacy_extra, user_home,
                    home_writable, backups, REPLY >>

\* case "config_data", up to the call of update_app_db_settings: rsync and
\* chown; a failed rsync is reported and the loop goes on.
migrate_config_data ==
    /\ pc = "transfer"
    /\ component = "config_data"
    /\ IF LEGACY_CONFIG_DIR # CONFIG_DIR
       THEN \E rsync_ok \in BOOLEAN :
            /\ events' = events \o TransferEvents("config_data", rsync_ok)
            /\ sentinel' = SentinelsAfterTransfer(sentinel, "config_data")
            /\ IF rsync_ok
               THEN \* the copied app.db is now at $CONFIG_DIR/app.db
                    /\ db' \in {"ok", "locked"}
                    /\ pc' = "settings"
                    /\ UNCHANGED component_index
               ELSE \* "Failed to migrate configuration data."
                    /\ component_index' = component_index + 1
                    /\ UNCHANGED << pc, db >>
       ELSE \* "Configuration data migration skipped"
            /\ component_index' = component_index + 1
            /\ UNCHANGED << pc, db, events, sentinel >>
    /\ UNCHANGED << exit_code, classifyVars, pathVars, dirs, settings,
                    settings_at_entry, tools, UNRAR_PATH, CURRENT_LOGFILE,
                    CURRENT_ACCESS_LOGFILE, CURRENT_CALIBRE_DIR, settings_rc,
                    flagVars, opsVars, unit_enabled, legacy_tables, du_mb, mounts,
                    df_unreadable, planVars, venv, target_metadata,
                    legacy_extra, legacy_pyc, user_home, home_writable,
                    backups, REPLY >>

\* case "config_data" after update_app_db_settings returned: the call is a
\* plain command, a non-zero status ends the run (set -e).
config_data_settings_updated ==
    /\ pc = "settings_done"
    /\ component = "config_data"
    /\ IF settings_rc # 0
       THEN /\ pc' = "exited"
            /\ exit_code' = 1
            /\ UNCHANGED << IS_LEGACY_MIGRATION, component_index, events >>
       ELSE /\ events' = Append(events, Event("settings", "config_data"))
            /\ IS_LEGACY_MIGRATION' = TRUE
            /\ component_index' = component_index + 1
            /\ pc' = "transfer"
            /\ UNCHANGED exit_code
    /\ UNCHANGED << host, SERVICE_USER, REAL_USER, EXISTING_INSTALLATION,
                    IS_UPDATE, GIT_CHECK_USER, probed, SCRIPT_SOURCE_DIR,
                    SCENARIO, pathVars, dirs, settingsVars, flagVars, opsVars,
                    legacyVars, planVars, venv, target_metadata, legacy_extra,
                    legacy_pyc, user_home, home_writable, backups, REPLY >>

\* case "calibre_library": overwrite prompt when the target already holds a
\* non-empty metadata.db, rsync, chown; a failed rsync is reported.
migrate_calibre_library ==
    /\ pc = "transfer"
    /\ component = "calibre_library"
    /\ \E answer \in KeyReplies, rsync_ok \in BOOLEAN :
        LET prompted == target_metadata = "data"
            asked == IF prompted
                     THEN << Event("prompt", "calibre_library") >>
                     ELSE << >>
        IN  /\ REPLY' = IF prompted THEN answer ELSE REPLY
            /\ component_index' = component_index + 1
            /\ IF prompted /\ ~Accepted(answer)
               THEN \* "Migrating Calibre library cancelled by user.": continue
                    /\ events' = events \o asked
                    /\ UNCHANGED << sentinel, target_metadata,
                                    IS_LEGACY_MIGRATION >>
               ELSE IF LEGACY_CALIBRE_LIB_DIR # CALIBRE_LIB_DIR
               THEN /\ events' = events \o asked
                            \o TransferEvents("calibre_library", rsync_ok)
                    /\ sentinel' = SentinelsAfterTransfer(sentinel,
                                                          "calibre_library")
                    /\ IF rsync_ok
                       THEN /\ target_metadata' =
                                    sentinel["calibre_library"]
                            /\ IS_LEGACY_MIGRATION' = TRUE
                       ELSE \* "Failed to migrate Calibre library."
                            UNCHANGED << target_metadata,
                                         IS_LEGACY_MIGRATION >>
               ELSE \* "Calibre library migration skipped"
                    /\ events' = events \o asked
                    /\ UNCHANGED << sentinel, target_metadata,
                                    IS_LEGACY_MIGRATION >>
    /\ UNCHANGED << pc, exit_code, host, SERVICE_USER, REAL_USER,
                    EXISTING_INSTALLATION, IS_UPDATE, GIT_CHECK_USER, probed,
                    SCRIPT_SOURCE_DIR, SCENARIO, pathVars, dirs, settingsVars,
                    flagVars, opsVars, unit_enabled, legacy_tables, du_mb, mounts,
                    df_unreadable, planVars, venv, legacy_extra, legacy_pyc,
                    user_home, home_writable, backups >>

\* The end of the component loop and the return to
\* detect_existing_legacy_installation, which sets EXISTING_INSTALLATION.
FinishMigration ==
    /\ pc = "transfer"
    /\ component_index > Len(migrate_components)
    /\ pc' = "migrated"
    /\ EXISTING_INSTALLATION' = TRUE
    /\ UNCHANGED << exit_code, host, SERVICE_USER, REAL_USER, IS_UPDATE,
                    IS_LEGACY_MIGRATION, GIT_CHECK_USER, probed,
                    SCRIPT_SOURCE_DIR, SCENARIO, pathVars, dirs, settingsVars,
                    flagVars, opsVars, legacyVars, planVars, execVars >>

(***************************************************************************)
(* ultimate_service_stop: stop and disable the ingest unit, then kill the  *)
(* worker processes until pgrep finds none.                                *)
(***************************************************************************)
SYSTEMCTL_SERVICE_NAME == "acw-ingest-service.service"

UnitOp(op, unit) == [op |-> op, unit |-> unit]

\* local max_attempts=30
ultimate_max_attempts == 30

\* A variant of the loop test that admits one more round.
MoreAttemptsInclusive(a) == a <= ultimate_max_attempts

\* while [[ "$attempt" -lt "$max_attempts" ]]
MoreAttempts(a) == a < ultimate_max_attempts

\* What the next pgrep finds once a signal was sent and the sleep is over:
\* the worker is gone, or it survived or was started again.
WorkerAfterSignal == BOOLEAN

\* Part 1: systemctl stop if the unit is active, systemctl disable if it is
\* enabled; only a failed stop is remembered in final_status.
ultimate_service_stop_unit ==
    /\ pc = "stop_unit"
    /\ LET stops == svc.systemctl /\ svc.active
           disables == svc.systemctl /\ svc.enabled
       IN  /\ unit_ops' = unit_ops
                 \o (IF stops
                     THEN << UnitOp("stop", SYSTEMCTL_SERVICE_NAME) >>
                     ELSE << >>)
                 \o (IF disables
                     THEN << UnitOp("disable", SYSTEMCTL_SERVICE_NAME) >>
                     ELSE << >>)
           /\ final_status' = IF stops /\ ~svc.stop_ok THEN 1 ELSE 0
    /\ attempt' = 0
    /\ pc' = "kill_loop"
    /\ UNCHANGED << exit_code, classifyVars, pathVars, dirs, settingsVars,
                    flagVars, legacyVars, planVars, execVars, moreVars, svc,
                    service_user_exists, worker, stop_rc, presence_checks,
                    signals, errexit, entry_files >>

\* Part 2, one round of the while loop: pgrep, return 0 if nothing is found,
\* else pkill -KILL and sleep 1.
ultimate_service_stop_round ==
    /\ pc = "kill_loop"
    /\ MoreAttempts(attempt)
    /\ attempt' = attempt + 1
    /\ presence_checks' = presence_checks + 1
    /\ IF ~worker
       THEN /\ final_status' = 0
            /\ stop_rc' = 0
            /\ pc' = "stop_returned"
            /\ UNCHANGED << worker, signals >>
       ELSE /\ signals' = Append(signals, "KILL")
            /\ worker' \in WorkerAfterSignal
            /\ UNCHANGED << pc, final_status, stop_rc >>
    /\ UNCHANGED << exit_code, classifyVars, pathVars, dirs, settingsVars,
                    flagVars, legacyVars, planVars, execVars, moreVars, svc,
                    service_user_exists, errexit, startVars >>

\* The status after the loop: final_status, raised to 1 if the last pgrep
\* still finds a process.
FinalStatusAfterLoop(status, found) == IF found THEN 1 ELSE status

\* Part 3, after the loop: one more pgrep, then return $final_status.
ultimate_service_stop_final ==
    /\ pc = "kill_loop"
    /\ ~MoreAttempts(attempt)
    /\ presence_checks' = presence_checks + 1
    /\ final_status' = FinalStatusAfterLoop(final_status, worker)
    /\ stop_rc' = final_status'
    /\ pc' = "stop_returned"
    /\ UNCHANGED << exit_code, classifyVars, pathVars, dirs, settingsVars,
                    flagVars, legacyVars, planVars, execVars, moreVars, svc,
                    service_user_exists, worker, attempt, signals, errexit,
                    startVars >>

(***************************************************************************)
(* stop_autocaliweb_service: stop the main unit, then signal the worker    *)
(* processes, SIGTERM first and SIGKILL afterwards.                        *)
(***************************************************************************)
\* local max_attempts=3
stop_max_attempts == 3

\* A variant that sends SIGKILL from the first round on.
SignalOfAttemptKillOnly(a) == "KILL"

\* Attempt 1: SIGTERM; attempts 2 & 3: SIGKILL
SignalOfAttempt(a) == IF a = 1 THEN "TERM" ELSE "KILL"

\* systemctl stop if the unit is active, then the first pgrep.  The pgrep
\* is the whole right-hand side of an assignment: when it finds nothing its
\* status 1 is the status of the assignment, which ends the run if set -e
\* is in effect at the call.
stop_autocaliweb_service_begin ==
    /\ pc = "stop_begin"
    /\ unit_ops' = unit_ops
            \o (IF svc.systemctl /\ svc.active
                THEN << UnitOp("stop", "autocaliweb.service") >>
                ELSE << >>)
    /\ presence_checks' = presence_checks + 1
    /\ attempt' = 0
    /\ IF worker
       THEN pc' = "stop_loop" /\ UNCHANGED << exit_code, stop_rc >>
       ELSE IF errexit
            THEN pc' = "exited" /\ exit_code' = 1 /\ UNCHANGED stop_rc
            ELSE \* "No running processes found": return 0
                 pc' = "stop_returned" /\ stop_rc' = 0
                 /\ UNCHANGED exit_code
    /\ UNCHANGED << classifyVars, pathVars, dirs, settingsVars, flagVars,
                    legacyVars, planVars, execVars, moreVars, svc,
                    service_user_exists, worker, final_status, signals,
                    errexit, entry_files >>

\* One round of the while loop: signal, sleep 1, pgrep again; return 0 if
\* nothing is left, return 1 after the last round.
stop_autocaliweb_service_round ==
    /\ pc = "stop_loop"
    /\ attempt < stop_max_attempts
    /\ attempt' = attempt + 1
    /\ signals' = Append(signals, SignalOfAttempt(attempt'))
    /\ worker' \in WorkerAfterSignal
    /\ presence_checks' = presence_checks + 1
    /\ IF ~worker'
       THEN IF errexit
            THEN pc' = "exited" /\ exit_code' = 1 /\ UNCHANGED stop_rc
            ELSE \* "Successfully terminated all processes": return 0
                 pc' = "stop_returned" /\ stop_rc' = 0
                 /\ UNCHANGED exit_code
       ELSE IF attempt' < stop_max_attempts
            THEN UNCHANGED << pc, exit_code, stop_rc >>
            ELSE \* "Failed to terminate all processes": return 1
                 pc' = "stop_returned" /\ stop_rc' = 1
                 /\ UNCHANGED exit_code
    /\ UNCHANGED << classifyVars, pathVars, dirs, settingsVars, flagVars,
                    legacyVars, planVars, execVars, moreVars, svc,
                    service_user_exists, final_status, errexit, startVars >>

(***************************************************************************)
(* start_acw_services                                                      *)
(***************************************************************************)
\* The units, in the order start_acw_services goes through them.
ManagedUnits ==
    << "autocaliweb", "acw-ingest-service", "acw-auto-zipper",
       "metadata-change-detector" >>

\* The file tested with [ -f ] before the unit is started, relative to
\* $INSTALL_DIR; "" for the unit that is started without a test.
GateFileOf(unit) ==
    CASE unit = "autocaliweb" -> ""
      [] unit = "acw-ingest-service" -> "scripts/ingest_watcher.sh"
      [] unit = "acw-auto-zipper" -> "scripts/auto_zipper_wrapper.sh"
      [] unit = "metadata-change-detector" -> "scripts/cover_enforcer.py"

\* The file named by ExecStart= of the unit, relative to $INSTALL_DIR.
EntryPointOf(unit) ==
    CASE unit = "autocaliweb" -> "cps.py"
      [] unit = "acw-ingest-service" -> "scripts/ingest_watcher.sh"
      [] unit = "acw-auto-zipper" -> "scripts/auto_zipper_wrapper.sh"
      [] unit = "metadata-change-detector" ->
            "scripts/metadata_change_detector_wrapper.sh"

EntryFiles ==
    {"cps.py", "scripts/ingest_watcher.sh", "scripts/auto_zipper_wrapper.sh",
     "scripts/cover_enforcer.py",
     "scripts/metadata_change_detector_wrapper.sh"}

\* A variant that starts every unit without looking at the files.
GateOpenAlways(unit, present) == TRUE

\* systemctl start is reached for this unit
GateOpen(unit, present) ==
    GateFileOf(unit) = "" \/ GateFileOf(unit) \in present

RECURSIVE StartRequests(_, _, _)
\* The start requests made for the units, in order; a failing systemctl
\* start is a plain command and ends the run.
StartRequests(units, present, start_ok) ==
    IF units = << >> THEN << >>
    ELSE IF ~GateOpen(Head(units), present)
         THEN StartRequests(Tail(units), present, start_ok)
         ELSE << UnitOp("start", Head(units)) >>
              \o (IF start_ok[Head(units)]
                  THEN StartRequests(Tail(units), present, start_ok)
                  ELSE << >>)

UnitSet == { ManagedUnits[i] : i \in 1 .. Len(ManagedUnits) }

start_acw_services ==
    /\ pc = "start_services"
    /\ \E start_ok \in [UnitSet -> BOOLEAN] :
            LET requests == StartRequests(ManagedUnits, entry_files, start_ok)
            IN  /\ unit_ops' = unit_ops \o requests
                /\ IF \E i \in 1 .. Len(requests) :
                            ~start_ok[requests[i].unit]
                   THEN pc' = "exited" /\ exit_code' = 1
                   ELSE pc' = "services_started" /\ UNCHANGED exit_code
    /\ UNCHANGED << classifyVars, pathVars, dirs, settingsVars, flagVars,
                    legacyVars, planVars, execVars, moreVars, stopVars, entry_files >>

(***************************************************************************)
(* git_exclude_file_path: the local exclude list of the work tree.  The    *)
(* file is a sequence of lines; the last line may lack its newline.        *)
(***************************************************************************)
\* local patterns=( ... )
ExcludePatterns ==
    << "scripts/manual_install_acw.sh", "ACW_RELEASE", "KEPUBIFY_RELEASE",
       "CALIBRE_RELEASE", "acw_update_notice", "/config", "/metadata_temp",
       "/metadata_change_logs", "/.venv" >>

CharAt(s, i) == SubSeq(s, i, i)

\* A variant that compares the line with the pattern as plain text.
MatchesWholeLineFixed(pattern, line) == line = pattern

\* grep -x "$pattern": the pattern is a basic regular expression that has
\* to match the whole line; of the characters in the patterns only the dot
\* is special, it stands for any one character.
MatchesWholeLine(pattern, line) ==
    /\ Len(line) = Len(pattern)
    /\ \A i \in 1 .. Len(pattern) :
            CharAt(pattern, i) = "." \/ CharAt(pattern, i) = CharAt(line, i)

\* grep -qx "$pattern" "$GIT_EXCLUDE_FILE"
GrepQx(pattern, lines) ==
    \E i \in 1 .. Len(lines) : MatchesWholeLine(pattern, lines[i])

\* echo "$pattern" >>"$GIT_EXCLUDE_FILE": the text goes after the last byte
\* of the file, onto the last line if that one has no newline.
AppendLine(f, text) ==
    IF f.lines = << >> \/ f.terminated
    THEN [lines |-> Append(f.lines, text), terminated |-> TRUE]
    ELSE [lines |-> [f.lines EXCEPT ![Len(f.lines)] = @ \o text],
          terminated |-> TRUE]

RECURSIVE AddPatterns(_, _)
\* for pattern in "${patterns[@]}"
AddPatterns(patterns, f) ==
    IF patterns = << >> THEN f
    ELSE AddPatterns(Tail(patterns),
                     IF GrepQx(Head(patterns), f.lines) THEN f
                     ELSE AppendLine(f, Head(patterns)))

\* Bound on the passes over the same file.
MaxRuns == 3

git_exclude_file_path ==
    /\ pc = "exclude"
    /\ exclude_runs < MaxRuns
    /\ IF ~exclude_dir
       THEN \* "'.git/info' directory not found": return 1
            /\ pc' = "exclude_failed"
            /\ UNCHANGED << exit_code, exclude_lines, exclude_terminated,
                            exclude_runs >>
       ELSE LET f == AddPatterns(ExcludePatterns,
                                 [lines |-> exclude_lines,
                                  terminated |-> exclude_terminated])
            IN  /\ exclude_lines' = f.lines
                /\ exclude_terminated' = f.terminated
                /\ \E update_index_ok \in BOOLEAN :
                        IF update_index_ok
                        THEN /\ exclude_runs' = exclude_runs + 1
                             /\ UNCHANGED << pc, exit_code >>
                        ELSE \* git update-index fails for dirs.json
                             /\ pc' = "exited"
                             /\ exit_code' = 1
                             /\ UNCHANGED exclude_runs
    /\ UNCHANGED << classifyVars, pathVars, dirs, settingsVars, flagVars,
                    legacyVars, planVars, execVars, stopVars, startVars,
                    exclude_dir, exclude_at_entry, envVars, gitVars,
                    progressVars >>

(***************************************************************************)
(* setup_permanent_environment_variables writes the environment file; the  *)
(* next run of the installer reads it back in                              *)
(* detect_and_classify_installation.                                       *)
(***************************************************************************)
SERVICE_GROUP == "abc"
INGEST_DIR == "/srv/acw-book-ingest"

\* cat >/etc/autocaliweb/environment <<EOF ... EOF
EnvFileText(install_dir, config_dir, service_user, calibre_lib_dir) ==
    << "ACW_INSTALL_DIR=" \o install_dir,
       "ACW_CONFIG_DIR=" \o config_dir,
       "ACW_USER=" \o service_user,
       "ACW_GROUP=" \o SERVICE_GROUP,
       "LIBRARY_DIR=" \o calibre_lib_dir,
       "INGEST_DIR=" \o INGEST_DIR,
       "PYTHONPATH=" \o install_dir \o "/.venv/bin",
       "CALIBRE_DBPATH=" \o config_dir >>

\* the line begins with the text (grep "^text")
StartsWith(line, text) ==
    /\ Len(line) >= Len(text)
    /\ SubSeq(line, 1, Len(text)) = text

RECURSIVE GrepLines(_, _)
\* grep "^text" file: the lines that begin with the text, in order
GrepLines(text, lines) ==
    IF lines = << >> THEN << >>
    ELSE (IF StartsWith(Head(lines), text) THEN << Head(lines) >>
          ELSE << >>)
         \o GrepLines(text, Tail(lines))

RECURSIVE JoinLines(_)
\* $( ... ): the output lines joined by newlines, the last newline dropped
JoinLines(lines) ==
    IF lines = << >> THEN ""
    ELSE IF Len(lines) = 1 THEN Head(lines)
    ELSE Head(lines) \o "\n" \o JoinLines(Tail(lines))

EqPositions(s) == { i \in 1 .. Len(s) : CharAt(s, i) = "=" }

Least(S) == CHOOSE i \in S : \A j \in S : i <= j

Greatest(S) == CHOOSE i \in S : \A j \in S : i >= j

\* A variant that removes the longest prefix ending in "=" (##*=).
AfterLastEq(s) ==
    IF EqPositions(s) = {} THEN s
    ELSE SubSeq(s, Greatest(EqPositions(s)) + 1, Len(s))

\* "${CONFIG_LINE#*=}": the shortest prefix ending in "=" is removed
AfterFirstEq(s) ==
    IF EqPositions(s) = {} THEN s
    ELSE SubSeq(s, Least(EqPositions(s)) + 1, Len(s))

\* CONFIG_LINE=$(grep "^ACW_INSTALL_DIR" ...); CURR_INSTALL_PATH=...
CurrInstallPathOf(lines) ==
    AfterFirstEq(JoinLines(GrepLines("ACW_INSTALL_DIR", lines)))

\* mkdir, the environment file, then /etc/environment; each is a plain
\* command that ends the run if it fails.
setup_permanent_environment_variables ==
    /\ pc = "env_setup"
    /\ \E write_ok, etc_environment_ok \in BOOLEAN :
            IF ~write_ok
            THEN /\ pc' = "exited"
                 /\ exit_code' = 1
                 /\ UNCHANGED << env_file, env_written_dir >>
            ELSE /\ env_file' = EnvFileText(INSTALL_DIR, CONFIG_DIR,
                                            SERVICE_USER, CALIBRE_LIB_DIR)
                 /\ env_written_dir' = INSTALL_DIR
                 /\ IF etc_environment_ok
                    THEN pc' = "env_done" /\ UNCHANGED exit_code
                    ELSE pc' = "exited" /\ exit_code' = 1
    /\ UNCHANGED << classifyVars, pathVars, dirs, settingsVars, flagVars,
                    legacyVars, planVars, execVars, stopVars, startVars,
                    excludeVars, run_no, gitVars, progressVars >>

\* Directories an installation may be placed in.
InstallDirs == {"/opt/autocaliweb", "/srv/my apps/acw", "/opt/acw=prod"}

(***************************************************************************)
(* check_directories: the source under $INSTALL_DIR; for a git work tree   *)
(* the update from origin/main, every git command run through su.          *)
(***************************************************************************)
GitOp(op, user) == [op |-> op, user |-> user]

\* A variant that runs git as the service account.
GitUserService(check_user, service_user) == service_user

\* if [[ -z "$GIT_CHECK_USER" ]]; then git_user="$SERVICE_USER"; else ...
GitUser(check_user, service_user) ==
    IF check_user = "" THEN service_user ELSE check_user

\* [[ "$current_scenario" =~ "git_repo" ]]
IsGitScenario(scenario) ==
    scenario \in {"git_repo_with_template", "git_repo_without_template"}

\* What the operator may type at "Enter choice (S/D/C/X)".
Choices == {"s", "D", "c", "X", "?"}

\* git stash push && git reset --hard origin/main && git stash pop, as far
\* as the chain gets.
StashChain(user, reached) ==
    SubSeq(<< GitOp("stash_push", user), GitOp("reset", user),
              GitOp("stash_pop", user) >>, 1, reached)

\* The git commands of the update once the hashes differ.
UpdateOps(user, dirty, choice, reached) ==
    << GitOp("diff", user) >>
    \o (IF ~dirty THEN << GitOp("reset", user) >>
        ELSE IF choice \in {"s", "S"} THEN StashChain(user, reached)
        ELSE IF choice \in {"d", "D"} THEN << GitOp("reset", user) >>
        ELSE << >>)

check_directories ==
    /\ pc = "classified"
    /\ ~IS_LEGACY_MIGRATION
    /\ IF ~({INSTALL_DIR, CONFIG_DIR} \subseteq dirs)
       THEN \* "Required directories not found."
            /\ pc' = "exited"
            /\ exit_code' = 1
            /\ UNCHANGED << git_ops, events >>
       ELSE IF ~IsGitScenario(SCENARIO)
       THEN \* download, copy or version-based update of the source
            /\ \E source_ok \in BOOLEAN :
                    IF source_ok
                    THEN pc' = "dirs_checked" /\ UNCHANGED exit_code
                    ELSE pc' = "exited" /\ exit_code' = 1
            /\ UNCHANGED << git_ops, events >>
       ELSE LET git_user == GitUser(GIT_CHECK_USER, SERVICE_USER)
                config == << GitOp("config_safe_directory", git_user),
                             GitOp("config_fileMode", git_user) >>
                check == << GitOp("fetch", git_user),
                            GitOp("rev_parse", git_user),
                            GitOp("rev_parse", git_user) >>
                asked == IF ACCEPT_ALL = 1 THEN << >>
                         ELSE << Event("prompt", "git_update") >>
            IN  \E answer \in (IF ACCEPT_ALL = 1 THEN {"y"}
                                ELSE KeyReplies) :
                    IF ~Accepted(answer)
                    THEN \* "Skipping Git repository update."
                         /\ git_ops' = git_ops \o config
                         /\ events' = events \o asked
                         /\ pc' = "dirs_checked"
                         /\ UNCHANGED exit_code
                    ELSE IF ~repo.remote_differs
                    THEN \* "Git repository is already up to date."
                         /\ git_ops' = git_ops \o config \o check
                         /\ events' = events \o asked
                         /\ pc' = "dirs_checked"
                         /\ UNCHANGED exit_code
                    ELSE \E choice \in Choices, reached \in 1 .. 3 :
                         /\ git_ops' = git_ops \o config \o check
                                \o UpdateOps(git_user, repo.dirty, choice,
                                             reached)
                         /\ events' = events \o asked
                                \o (IF repo.dirty
                                    THEN << Event("prompt", "git_dirty") >>
                                    ELSE << >>)
                         /\ IF repo.dirty /\ choice \in {"x", "X"}
                            THEN \* "Installation aborted by user."
                                 pc' = "exited" /\ exit_code' = 1
                            ELSE pc' = "dirs_checked"
                                 /\ UNCHANGED exit_code
    /\ UNCHANGED << classifyVars, pathVars, dirs, settingsVars, flagVars,
                    legacyVars, planVars, venv, target_metadata,
                    legacy_extra, legacy_pyc, user_home, home_writable,
                    backups, component_index, REPLY, stopVars, startVars,
                    excludeVars, envVars, repo, progressVars >>

(***************************************************************************)
(* run_with_progress: a background task reports every minute while the     *)
(* wrapped command runs.  The shell may receive SIGINT or SIGTERM at any   *)
(* point; bash runs a trap handler only when no foreground command is      *)
(* running, and without a handler the signal ends the shell.               *)
(***************************************************************************)
RECURSIVE ReplaceF(_)
\* "${cmd[1]//f/vf}"
ReplaceF(s) ==
    IF s = "" THEN ""
    ELSE (IF CharAt(s, 1) = "f" THEN "vf" ELSE CharAt(s, 1))
         \o ReplaceF(SubSeq(s, 2, Len(s)))

\* tar becomes verbose in debug mode
AdjustedCommand(words, debug_mode) ==
    IF words[1] = "tar" /\ debug_mode = 1
    THEN [words EXCEPT ![2] = ReplaceF(@)]
    ELSE words

\* ( while true; do sleep 60; print_status ...; done ) &
rwp_fork ==
    /\ pc = "rwp_start"
    /\ cmd' = AdjustedCommand(cmd, DEBUG_MODE)
    /\ heartbeat' = TRUE
    /\ pc' = "rwp_forked"
    /\ UNCHANGED << exit_code, classifyVars, pathVars, dirs, settingsVars,
                    flagVars, legacyVars, planVars, execVars, stopVars,
                    startVars, excludeVars, envVars, gitVars, trap_set,
                    pending_signal, cmd_status, signals_received,
                    DEBUG_MODE >>

\* trap 'kill "$progress_pid" 2>/dev/null || true' EXIT INT TERM
rwp_trap ==
    /\ pc = "rwp_forked"
    /\ trap_set' = TRUE
    /\ pc' = "rwp_armed"
    /\ UNCHANGED << exit_code, classifyVars, pathVars, dirs, settingsVars,
                    flagVars, legacyVars, planVars, execVars, stopVars,
                    startVars, excludeVars, envVars, gitVars, heartbeat,
                    pending_signal, cmd_status, signals_received, cmd,
                    DEBUG_MODE >>

\* if "${cmd[@]}": the command is started in the foreground
rwp_command_starts ==
    /\ pc = "rwp_armed"
    /\ pc' = "rwp_running"
    /\ UNCHANGED << exit_code, classifyVars, pathVars, dirs, settingsVars,
                    flagVars, legacyVars, planVars, execVars, opsVars >>

\* The command ends with some status; a handler that was waiting runs now.
rwp_command_ends ==
    /\ pc = "rwp_running"
    /\ cmd_status' \in {0, 1}
    /\ heartbeat' = IF pending_signal THEN FALSE ELSE heartbeat
    /\ pending_signal' = FALSE
    /\ pc' = "rwp_finished"
    /\ UNCHANGED << exit_code, classifyVars, pathVars, dirs, settingsVars,
                    flagVars, legacyVars, planVars, execVars, stopVars,
                    startVars, excludeVars, envVars, gitVars, trap_set,
                    signals_received, cmd, DEBUG_MODE >>

\* kill "$progress_pid" 2>/dev/null || true, in either branch
rwp_kill ==
    /\ pc = "rwp_finished"
    /\ heartbeat' = FALSE
    /\ pc' = "rwp_killed"
    /\ UNCHANGED << exit_code, classifyVars, pathVars, dirs, settingsVars,
                    flagVars, legacyVars, planVars, execVars, stopVars,
                    startVars, excludeVars, envVars, gitVars, trap_set,
                    pending_signal, cmd_status, signals_received, cmd,
                    DEBUG_MODE >>

\* trap - EXIT INT TERM
rwp_untrap ==
    /\ pc = "rwp_killed"
    /\ trap_set' = FALSE
    /\ pc' = "rwp_disarmed"
    /\ UNCHANGED << exit_code, classifyVars, pathVars, dirs, settingsVars,
                    flagVars, legacyVars, planVars, execVars, stopVars,
                    startVars, excludeVars, envVars, gitVars, heartbeat,
                    pending_signal, cmd_status, signals_received, cmd,
                    DEBUG_MODE >>

\* return 0 / return 1
rwp_return ==
    /\ pc = "rwp_disarmed"
    /\ pc' = "rwp_returned"
    /\ UNCHANGED << exit_code, classifyVars, pathVars, dirs, settingsVars,
                    flagVars, legacyVars, planVars, execVars, opsVars >>

\* Bound on the signals delivered during one call.
MaxSignals == 2

SignalNumber(sig) == IF sig = "INT" THEN 2 ELSE 15

InRunWithProgress ==
    pc \in {"rwp_start", "rwp_forked", "rwp_armed", "rwp_running",
            "rwp_finished", "rwp_killed", "rwp_disarmed"}

\* SIGINT or SIGTERM reaches the shell that executes run_with_progress.
rwp_signal ==
    /\ InRunWithProgress
    /\ Len(signals_received) < MaxSignals
    /\ \E sig \in {"INT", "TERM"} :
            /\ signals_received' = Append(signals_received, sig)
            /\ IF ~trap_set
               THEN \* no handler: the shell is terminated by the signal
                    /\ pc' = "exited"
                    /\ exit_code' = 128 + SignalNumber(sig)
                    /\ UNCHANGED << heartbeat, pending_signal >>
               ELSE IF pc = "rwp_running"
               THEN \* the handler waits for the foreground command
                    /\ pending_signal' = TRUE
                    /\ UNCHANGED << pc, exit_code, heartbeat >>
               ELSE \* the handler runs: kill "$progress_pid"
                    /\ heartbeat' = FALSE
                    /\ UNCHANGED << pc, exit_code, pending_signal >>
    /\ UNCHANGED << classifyVars, pathVars, dirs, settingsVars, flagVars,
                    legacyVars, planVars, execVars, stopVars, startVars,
                    excludeVars, envVars, gitVars, trap_set, cmd_status,
                    cmd, DEBUG_MODE >>

(***************************************************************************)
(* The host before the installer runs: a sentinel file appears in a legacy *)
(* directory (created with it if need be).                                 *)
(***************************************************************************)
MaxTables == 7

AddSentinel(c) ==
    /\ pc = "plan"
    /\ sentinel[c] = "absent"
    /\ \E content \in {"empty", "data"} :
            sentinel' = [sentinel EXCEPT ![c] = content]
    /\ dirs' = dirs \cup {LegacyDirOf(c)}
    /\ IF c = "config_data" /\ sentinel'[c] = "data"
       THEN legacy_tables' \in -1 .. MaxTables
       ELSE UNCHANGED legacy_tables
    /\ UNCHANGED << pc, exit_code, classifyVars, pathVars, settingsVars,
                    flagVars, opsVars, unit_enabled, du_mb, mounts, df_unreadable,
                    planVars, execVars >>

(***************************************************************************)
(* Specification of the classification step alone.                         *)
(***************************************************************************)
HostFacts ==
    { h \in [ unitFile : BOOLEAN, envFile : BOOLEAN, envHasKey : BOOLEAN,
              envInstallDir : {"", "/opt/autocaliweb", LEGACY_INSTALL_DIR},
              legacyDir : BOOLEAN, legacyOwner : {"", "abc", "alice"},
              gitTrees : SUBSET {"/opt/autocaliweb", LEGACY_INSTALL_DIR},
              gitReadableBy : SUBSET Users, gitInfoDir : BOOLEAN,
              template : BOOLEAN, requirements : BOOLEAN,
              scriptInSource : BOOLEAN ] :
        /\ (h.envHasKey => h.envFile)
        /\ (h.envInstallDir = "" <=> ~h.envHasKey)
        /\ (h.legacyOwner = "" <=> ~h.legacyDir)
        /\ (LEGACY_INSTALL_DIR \in h.gitTrees => h.legacyDir)
        /\ (h.gitInfoDir => "/opt/autocaliweb" \in h.gitTrees) }

InitGlobals ==
    /\ exit_code = -1
    /\ EXISTING_INSTALLATION = FALSE
    /\ IS_UPDATE = FALSE
    /\ IS_LEGACY_MIGRATION = FALSE
    /\ GIT_CHECK_USER = ""
    /\ probed = << >>
    /\ SCRIPT_SOURCE_DIR = ""
    /\ SCENARIO = ""

InitFlagsDefault ==
    /\ ACCEPT_ALL = 0
    /\ ALLOW_LOW_SPACE = 0

LegacyDirs == {LEGACY_INSTALL_DIR, LEGACY_CONFIG_DIR, LEGACY_CALIBRE_LIB_DIR}

\* A host without any legacy data.
InitLegacyNone ==
    /\ unit_enabled = FALSE
    /\ sentinel = [c \in Components |-> "absent"]
    /\ legacy_tables = 0
    /\ du_mb = [d \in LegacyDirs |-> 0]
    /\ mounts = {"/"}
    /\ df_unreadable = {}

InitPlanIdle ==
    /\ migrate_components = << >>
    /\ total_legacy_size_mb = 0
    /\ required_for_migration_mb = 0
    /\ unique_target_mount_points = << >>
    /\ checks = << >>

\* No exclude list, environment file, repository or wrapped command is
\* touched.
InitMoreIdle ==
    /\ exclude_dir = FALSE
    /\ exclude_lines = << >>
    /\ exclude_terminated = TRUE
    /\ exclude_at_entry = [lines |-> << >>, terminated |-> TRUE]
    /\ exclude_runs = 0
    /\ env_file = << >>
    /\ env_written_dir = ""
    /\ run_no = 1
    /\ repo = [remote_differs |-> FALSE, dirty |-> FALSE]
    /\ git_ops = << >>
    /\ heartbeat = FALSE
    /\ trap_set = FALSE
    /\ pending_signal = FALSE
    /\ cmd_status = -1
    /\ signals_received = << >>
    /\ cmd = << >>
    /\ DEBUG_MODE = 0

\* No service has been stopped or started.
InitOpsIdle ==
    /\ svc = [systemctl |-> TRUE, active |-> FALSE, enabled |-> FALSE,
              stop_ok |-> TRUE]
    /\ service_user_exists = FALSE
    /\ worker = FALSE
    /\ attempt = 0
    /\ final_status = 0
    /\ stop_rc = -1
    /\ presence_checks = 0
    /\ signals = << >>
    /\ errexit = TRUE
    /\ unit_ops = << >>
    /\ entry_files = {}
    /\ InitMoreIdle

\* No migration has been executed.
InitExecIdle ==
    /\ venv = {}
    /\ target_metadata = "absent"
    /\ legacy_extra = {}
    /\ legacy_pyc = FALSE
    /\ user_home = TRUE
    /\ home_writable = TRUE
    /\ backups = {}
    /\ events = << >>
    /\ component_index = 0
    /\ REPLY = ""

InitPathsDefault ==
    /\ INSTALL_DIR = "/opt/autocaliweb"
    /\ CONFIG_DIR = "/opt/autocaliweb/config"
    /\ CALIBRE_LIB_DIR = "/srv/calibre-library"
    /\ dirs = {"/"}

\* The settings row of a legacy (Docker-style) installation.
LegacyRow ==
    [ config_logfile |-> "/config/autocaliweb.log",
      config_access_logfile |-> "/config/access.log",
      config_calibre_dir |-> "/calibre-library",
      config_kepubifypath |-> "/usr/local/bin/kepubify",
      config_converterpath |-> "/app/calibre/ebook-convert",
      config_binariesdir |-> "/app/calibre",
      config_rarfile_location |-> "/usr/local/bin/unrar",
      config_port |-> "9443",
      config_calibre_web_title |-> "Autocaliweb" ]

InitSettingsIdle ==
    /\ db = "missing"
    /\ settings = LegacyRow
    /\ settings_at_entry = LegacyRow
    /\ tools = [kepubify |-> "", ebook_convert |-> ""]
    /\ UNRAR_PATH = ""
    /\ CURRENT_LOGFILE = ""
    /\ CURRENT_ACCESS_LOGFILE = ""
    /\ CURRENT_CALIBRE_DIR = ""
    /\ settings_rc = -1

InitScenario ==
    /\ pc = "classify"
    /\ host \in HostFacts
    /\ SERVICE_USER \in {"abc", "acw"}
    /\ REAL_USER \in {"alice", "root"}
    /\ InitGlobals
    /\ InitPathsDefault
    /\ InitSettingsIdle
    /\ InitFlagsDefault
    /\ InitLegacyNone
    /\ InitPlanIdle
    /\ InitOpsIdle
    /\ InitExecIdle

NextScenario == detect_and_classify_installation

SpecScenario == InitScenario /\ [][NextScenario]_vars

(***************************************************************************)
(* Specification of the settings update alone: update_app_db_settings is   *)
(* run once on the database found under CONFIG_DIR.                        *)
(***************************************************************************)
StoredLogfiles ==
    {"", "autocaliweb.log", "/tmp/autocaliweb.log", "/config/autocaliweb.log",
     "/tmp/custom.log", "/var/log/acw/acw.log"}

StoredAccessLogfiles ==
    {"", "access.log", "/tmp/access.log", "/config/access.log",
     "/var/log/acw/access.log"}

StoredCalibreDirs ==
    {"", "/", "/calibre", "/calibre-library", "/mnt/books",
     "/srv/calibre-library"}

\* Directories that may or may not exist; "/" always does.
OptionalDirs == {"/calibre", "/calibre-library", "/mnt/books"}

InitSettings ==
    /\ pc = "settings"
    /\ host = [ unitFile |-> TRUE, envFile |-> FALSE, envHasKey |-> FALSE,
                envInstallDir |-> "", legacyDir |-> TRUE,
                legacyOwner |-> "abc", gitTrees |-> {},
                gitReadableBy |-> {}, gitInfoDir |-> FALSE,
                template |-> FALSE, requirements |-> TRUE,
                scriptInSource |-> FALSE ]
    /\ SERVICE_USER = "acw"
    /\ REAL_USER = "alice"
    /\ InitGlobals
    /\ INSTALL_DIR = "/opt/autocaliweb"
    /\ CONFIG_DIR \in {"/opt/autocaliweb/config", "/mnt/data/acw/config"}
    /\ CALIBRE_LIB_DIR \in {"/srv/calibre-library", "/mnt/data/library"}
    /\ \E opt \in SUBSET OptionalDirs : dirs = {"/"} \cup opt
    /\ db \in {"missing", "locked", "ok"}
    /\ IF db = "ok"
       THEN \E lf \in StoredLogfiles, af \in StoredAccessLogfiles,
               cd \in StoredCalibreDirs :
                settings = [LegacyRow EXCEPT !.config_logfile = lf,
                                             !.config_access_logfile = af,
                                             !.config_calibre_dir = cd]
       ELSE settings = LegacyRow
    /\ settings_at_entry = settings
    /\ tools \in [kepubify : {"", "/usr/local/bin/kepubify"},
                  ebook_convert : {"", "/opt/calibre/ebook-convert"}]
    /\ UNRAR_PATH \in {"", "/usr/bin/unrar"}
    /\ CURRENT_LOGFILE = ""
    /\ CURRENT_ACCESS_LOGFILE = ""
    /\ CURRENT_CALIBRE_DIR = ""
    /\ settings_rc = -1
    /\ InitFlagsDefault
    /\ InitLegacyNone
    /\ InitPlanIdle
    /\ InitOpsIdle
    /\ InitExecIdle

NextSettings == update_app_db_settings

SpecSettings == InitSettings /\ [][NextSettings]_vars

(***************************************************************************)
(* Specification of component selection: a host on which sentinel files    *)
(* appear in the legacy directories, then the planner's selection.         *)
(***************************************************************************)
LegacyHost ==
    [ unitFile |-> TRUE, envFile |-> FALSE, envHasKey |-> FALSE,
      envInstallDir |-> "", legacyDir |-> TRUE, legacyOwner |-> "abc",
      gitTrees |-> {}, gitReadableBy |-> {}, gitInfoDir |-> FALSE,
      template |-> FALSE, requirements |-> TRUE, scriptInSource |-> FALSE ]

\* The globals once detect_and_classify_installation found a legacy install.
InitClassifiedLegacy ==
    /\ host = LegacyHost
    /\ SERVICE_USER = "acw"
    /\ REAL_USER = "alice"
    /\ exit_code = -1
    /\ EXISTING_INSTALLATION = TRUE
    /\ IS_UPDATE = TRUE
    /\ IS_LEGACY_MIGRATION = TRUE
    /\ GIT_CHECK_USER = ""
    /\ probed = << "abc", "root", "acw", "alice" >>
    /\ SCRIPT_SOURCE_DIR = ""
    /\ SCENARIO = "extracted_without_template"

InitSelect ==
    /\ pc = "plan"
    /\ InitClassifiedLegacy
    /\ INSTALL_DIR \in {LEGACY_INSTALL_DIR, "/opt/autocaliweb"}
    /\ CONFIG_DIR \in {LEGACY_CONFIG_DIR, "/opt/autocaliweb/config"}
    /\ CALIBRE_LIB_DIR \in {LEGACY_CALIBRE_LIB_DIR, "/srv/calibre-library"}
    /\ \E present \in SUBSET LegacyDirs : dirs = {"/"} \cup present
    /\ InitSettingsIdle
    /\ InitFlagsDefault
    /\ unit_enabled \in BOOLEAN
    /\ sentinel = [c \in Components |-> "absent"]
    /\ legacy_tables = 0
    /\ du_mb = [d \in LegacyDirs |-> 400]
    /\ mounts = {"/"}
    /\ df_unreadable = {}
    /\ InitPlanIdle
    /\ InitOpsIdle
    /\ InitExecIdle

NextSelect ==
    \/ \E c \in Components : AddSentinel(c)
    \/ PlanMigration

SpecSelect == InitSelect /\ [][NextSelect]_vars

(***************************************************************************)
(* Specification of the space estimate and the pre-flight checks: the      *)
(* planner on a legacy host, followed by its check_disk_space calls.       *)
(***************************************************************************)
MaxSizeK == 3

\* Sizes du may report for a legacy directory, in MB.
Sizes == {3} \cup {200 * k : k \in 2 .. MaxSizeK}

ParentDirs == {"/opt", "/srv", "/mnt", "/mnt/data"}

TargetDirs ==
    {"/opt/autocaliweb", "/opt/autocaliweb/config", "/srv/calibre-library",
     "/mnt/data/acw", "/mnt/data/acw/config", "/mnt/data/library"}

\* Target-side layouts: which directories exist, which are mount points, on
\* which df fails.
HostLayouts ==
    { l \in [ dirs : {{}, ParentDirs, ParentDirs \cup TargetDirs},
              mounts : SUBSET {"/mnt/data", "/srv", "/opt/autocaliweb/config"},
              df_unreadable : {{}, {"/srv"}} ] :
        /\ l.mounts \subseteq l.dirs
        /\ l.df_unreadable \subseteq l.dirs }

InitSpace ==
    /\ pc = "plan"
    /\ InitClassifiedLegacy
    /\ INSTALL_DIR \in {"/opt/autocaliweb", "/mnt/data/acw"}
    /\ CONFIG_DIR \in {"/opt/autocaliweb/config", "/mnt/data/acw/config"}
    /\ CALIBRE_LIB_DIR \in {"/srv/calibre-library", "/mnt/data/library"}
    /\ \E l \in HostLayouts :
          /\ dirs = {"/"} \cup LegacyDirs \cup l.dirs
          /\ mounts = {"/"} \cup l.mounts
          /\ df_unreadable = l.df_unreadable
    /\ InitSettingsIdle
    /\ ACCEPT_ALL = 0
    /\ ALLOW_LOW_SPACE \in {0, 1}
    /\ unit_enabled = TRUE
    /\ sentinel \in [Components -> {"absent", "data"}]
    /\ legacy_tables = 6
    /\ du_mb \in [LegacyDirs -> Sizes]
    /\ InitPlanIdle
    /\ InitOpsIdle
    /\ InitExecIdle

NextSpace ==
    \/ PlanMigration
    \/ check_disk_space

SpecSpace == InitSpace /\ [][NextSpace]_vars

(***************************************************************************)
(* Specification of a legacy migration run: main from the classified       *)
(* legacy installation through migrate_legacy_venv, the planner with its   *)
(* space checks and confirmation, and migrate_existing_installation.       *)
(***************************************************************************)
ExtraLegacyFiles ==
    {"/config/acw.db", "/config/gdrive.db",
     "/calibre-library/.calnotes/notes.db"}

InitLegacyRun ==
    /\ pc = "classified"
    /\ InitClassifiedLegacy
    /\ INSTALL_DIR = "/opt/autocaliweb"
    /\ CONFIG_DIR = "/opt/autocaliweb/config"
    /\ CALIBRE_LIB_DIR = "/srv/calibre-library"
    /\ venv \in {{}, {"venv"}, {"venv", ".venv"}}
    /\ target_metadata \in {"absent", "empty", "data"}
    /\ dirs = {"/"} \cup LegacyDirs
              \cup (IF venv # {} THEN Ancestors(INSTALL_DIR) ELSE {})
              \cup (IF target_metadata # "absent"
                    THEN Ancestors(CALIBRE_LIB_DIR) ELSE {})
    /\ db = "missing"
    /\ settings = LegacyRow
    /\ settings_at_entry = LegacyRow
    /\ tools = [kepubify |-> "", ebook_convert |-> ""]
    /\ UNRAR_PATH = "/usr/bin/unrar"
    /\ CURRENT_LOGFILE = ""
    /\ CURRENT_ACCESS_LOGFILE = ""
    /\ CURRENT_CALIBRE_DIR = ""
    /\ settings_rc = -1
    /\ ACCEPT_ALL \in {0, 1}
    /\ ALLOW_LOW_SPACE = 0
    /\ unit_enabled = TRUE
    /\ sentinel \in [Components -> {"absent", "data"}]
    /\ legacy_tables = 6
    /\ du_mb = [d \in LegacyDirs |-> 3]
    /\ mounts = {"/"}
    /\ df_unreadable = {}
    /\ InitPlanIdle
    /\ legacy_extra \in SUBSET ExtraLegacyFiles
    /\ legacy_pyc \in BOOLEAN
    /\ user_home \in BOOLEAN
    /\ home_writable \in BOOLEAN
    /\ (home_writable => user_home)
    /\ backups = {}
    /\ events = << >>
    /\ component_index = 0
    /\ REPLY = ""

\* The service account does not exist yet: no service is stopped.
InitMigrate ==
    /\ InitLegacyRun
    /\ InitOpsIdle

NextMigrate ==
    \/ migrate_legacy_venv
    \/ PlanMigration
    \/ check_disk_space
    \/ ConfirmMigration
    \/ prepare_service_environment
    \/ StartMigration
    \/ BackupStep
    \/ migrate_app_source
    \/ migrate_config_data
    \/ update_app_db_settings
    \/ config_data_settings_updated
    \/ migrate_calibre_library
    \/ FinishMigration

SpecMigrate == InitMigrate /\ [][NextMigrate]_vars

(***************************************************************************)
(* Specifications of the stop routines alone, on a host where the unit may *)
(* be active or enabled and a worker process may be running.               *)
(***************************************************************************)
ServiceManagers ==
    [systemctl : BOOLEAN, active : BOOLEAN, enabled : BOOLEAN,
     stop_ok : BOOLEAN]

InitRunIdle ==
    /\ host = LegacyHost
    /\ SERVICE_USER = "acw"
    /\ REAL_USER = "alice"
    /\ InitGlobals
    /\ InitPathsDefault
    /\ InitSettingsIdle
    /\ InitFlagsDefault
    /\ InitLegacyNone
    /\ InitPlanIdle
    /\ InitExecIdle

InitStopIdle ==
    /\ service_user_exists = TRUE
    /\ attempt = 0
    /\ final_status = 0
    /\ stop_rc = -1
    /\ presence_checks = 0
    /\ signals = << >>
    /\ unit_ops = << >>
    /\ entry_files = {}
    /\ InitMoreIdle

InitUltimateStop ==
    /\ pc = "stop_unit"
    /\ InitRunIdle
    /\ InitStopIdle
    /\ svc \in ServiceManagers
    /\ worker \in BOOLEAN
    /\ errexit = TRUE

NextUltimateStop ==
    \/ ultimate_service_stop_unit
    \/ ultimate_service_stop_round
    \/ ultimate_service_stop_final

SpecUltimateStop == InitUltimateStop /\ [][NextUltimateStop]_vars

\* The routine is sequential code that is not suspended: its next step is
\* always taken.
LiveUltimateStop == SpecUltimateStop /\ WF_vars(NextUltimateStop)

InitStopService ==
    /\ pc = "stop_begin"
    /\ InitRunIdle
    /\ InitStopIdle
    /\ svc \in ServiceManagers
    /\ worker \in BOOLEAN
    /\ errexit \in BOOLEAN

NextStopService ==
    \/ stop_autocaliweb_service_begin
    \/ stop_autocaliweb_service_round

SpecStopService == InitStopService /\ [][NextStopService]_vars

(***************************************************************************)
(* Specification of a migration on a host where the service account        *)
(* exists: the executor re-configures it and stops the ingest service.     *)
(***************************************************************************)
InitReconfigure ==
    /\ InitLegacyRun
    /\ venv = {}
    /\ target_metadata = "absent"
    /\ ACCEPT_ALL = 1
    /\ sentinel = [c \in Components |-> "data"]
    /\ legacy_extra = {}
    /\ ~legacy_pyc
    /\ home_writable
    /\ InitStopIdle
    /\ svc \in ServiceManagers
    /\ worker \in BOOLEAN
    /\ errexit = TRUE

NextReconfigure ==
    \/ migrate_legacy_venv
    \/ PlanMigration
    \/ check_disk_space
    \/ ConfirmMigration
    \/ prepare_service_environment
    \/ StartMigration
    \/ BackupStep
    \/ migrate_app_source
    \/ migrate_config_data
    \/ update_app_db_settings
    \/ config_data_settings_updated
    \/ migrate_calibre_library
    \/ FinishMigration
    \/ ultimate_service_stop_unit
    \/ ultimate_service_stop_round
    \/ ultimate_service_stop_final
    \/ reconfigure_service_user

SpecReconfigure == InitReconfigure /\ [][NextReconfigure]_vars

(***************************************************************************)
(* Specification of start_acw_services alone, over the files that exist    *)
(* under the installation directory.                                       *)
(***************************************************************************)
InitStart ==
    /\ pc = "start_services"
    /\ InitRunIdle
    /\ svc \in ServiceManagers
    /\ service_user_exists = TRUE
    /\ worker = FALSE
    /\ attempt = 0
    /\ final_status = 0
    /\ stop_rc = -1
    /\ presence_checks = 0
    /\ signals = << >>
    /\ errexit = TRUE
    /\ unit_ops = << >>
    /\ entry_files \in SUBSET EntryFiles
    /\ InitMoreIdle

NextStart == start_acw_services

SpecStart == InitStart /\ [][NextStart]_vars

(***************************************************************************)
(* Specification of git_exclude_file_path run again and again on one       *)
(* exclude file, which holds none of the fixed patterns more than once.    *)
(***************************************************************************)
\* Lines an exclude file may hold before the installer runs.
ExistingLines ==
    {"# git ls-files --others --exclude-from=.git/info/exclude", "*.log",
     "/config", "/.venv", "/xvenv", "ACW_RELEASE"}

\* Bound on the lines of the file before the first pass.
MaxLines == 2

ExcludeFiles ==
    { s \in UNION { [1 .. n -> ExistingLines] : n \in 0 .. MaxLines } :
        \A i, j \in 1 .. Len(s) : i # j => s[i] # s[j] }

InitExclude ==
    /\ pc = "exclude"
    /\ InitRunIdle
    /\ svc = [systemctl |-> TRUE, active |-> FALSE, enabled |-> FALSE,
              stop_ok |-> TRUE]
    /\ service_user_exists = FALSE
    /\ worker = FALSE
    /\ attempt = 0
    /\ final_status = 0
    /\ stop_rc = -1
    /\ presence_checks = 0
    /\ signals = << >>
    /\ errexit = TRUE
    /\ unit_ops = << >>
    /\ entry_files = {}
    /\ exclude_dir \in BOOLEAN
    /\ exclude_lines \in ExcludeFiles
    /\ exclude_terminated \in BOOLEAN
    /\ (exclude_lines = << >> => exclude_terminated)
    /\ exclude_at_entry = [lines |-> exclude_lines,
                           terminated |-> exclude_terminated]
    /\ exclude_runs = 0
    /\ env_file = << >>
    /\ env_written_dir = ""
    /\ run_no = 1
    /\ repo = [remote_differs |-> FALSE, dirty |-> FALSE]
    /\ git_ops = << >>
    /\ heartbeat = FALSE
    /\ trap_set = FALSE
    /\ pending_signal = FALSE
    /\ cmd_status = -1
    /\ signals_received = << >>
    /\ cmd = << >>
    /\ DEBUG_MODE = 0

NextExclude == git_exclude_file_path

SpecExclude == InitExclude /\ [][NextExclude]_vars

(***************************************************************************)
(* Specification of two runs: the first up to its environment file, the    *)
(* second through detect_and_classify_installation.                        *)
(***************************************************************************)
\* The host of the first run once create_systemd_service has run.
FirstRunHost ==
    [ unitFile |-> TRUE, envFile |-> FALSE, envHasKey |-> FALSE,
      envInstallDir |-> "", legacyDir |-> FALSE, legacyOwner |-> "",
      gitTrees |-> {}, gitReadableBy |-> {}, gitInfoDir |-> FALSE,
      template |-> FALSE, requirements |-> TRUE, scriptInSource |-> FALSE ]

\* The installer is started again on the host the first run left: the unit
\* file written by create_systemd_service and the environment file are
\* there; the globals have the values of the script header.
next_run ==
    /\ pc = "env_done"
    /\ run_no = 1
    /\ run_no' = 2
    /\ pc' = "classify"
    /\ \E h \in HostFacts :
            /\ h.unitFile /\ h.envFile /\ h.envHasKey
            /\ h.envInstallDir = "/opt/autocaliweb"
            /\ h.gitReadableBy \in {{}, Users}
            /\ host' = [h EXCEPT
                    !.envFile = TRUE,
                    !.envHasKey =
                        GrepLines("ACW_INSTALL_DIR", env_file) # << >>,
                    !.envInstallDir = CurrInstallPathOf(env_file)]
    /\ INSTALL_DIR' \in InstallDirs
    /\ exit_code' = -1
    /\ EXISTING_INSTALLATION' = FALSE
    /\ IS_UPDATE' = FALSE
    /\ IS_LEGACY_MIGRATION' = FALSE
    /\ GIT_CHECK_USER' = ""
    /\ probed' = << >>
    /\ SCRIPT_SOURCE_DIR' = ""
    /\ SCENARIO' = ""
    /\ UNCHANGED << SERVICE_USER, REAL_USER, CONFIG_DIR, CALIBRE_LIB_DIR,
                    dirs, settingsVars, flagVars, legacyVars, planVars,
                    execVars, stopVars, startVars, excludeVars, env_file,
                    env_written_dir, gitVars, progressVars >>

InitEnvRoundTrip ==
    /\ pc = "env_setup"
    /\ host = FirstRunHost
    /\ SERVICE_USER \in {"abc", "acw"}
    /\ REAL_USER \in {"alice", "root"}
    /\ InitGlobals
    /\ INSTALL_DIR \in InstallDirs
    /\ CONFIG_DIR = "/opt/autocaliweb/config"
    /\ CALIBRE_LIB_DIR = "/srv/calibre-library"
    /\ dirs = {"/"}
    /\ InitSettingsIdle
    /\ InitFlagsDefault
    /\ InitLegacyNone
    /\ InitPlanIdle
    /\ InitExecIdle
    /\ InitOpsIdle

NextEnvRoundTrip ==
    \/ setup_permanent_environment_variables
    \/ next_run
    \/ detect_and_classify_installation

SpecEnvRoundTrip == InitEnvRoundTrip /\ [][NextEnvRoundTrip]_vars

(***************************************************************************)
(* Specification of a run on a host with an installation or a source tree: *)
(* detect_and_classify_installation, then check_directories once           *)
(* create_acw_directories has made the target directories.                 *)
(***************************************************************************)
InitGit ==
    /\ pc = "classify"
    /\ host \in { h \in HostFacts :
                    /\ h.gitInfoDir = ("/opt/autocaliweb" \in h.gitTrees)
                    /\ ~h.legacyDir
                    /\ ~h.scriptInSource
                    /\ h.requirements }
    /\ SERVICE_USER \in {"abc", "acw"}
    /\ REAL_USER \in {"alice", "root"}
    /\ InitGlobals
    /\ INSTALL_DIR = "/opt/autocaliweb"
    /\ CONFIG_DIR = "/opt/autocaliweb/config"
    /\ CALIBRE_LIB_DIR = "/srv/calibre-library"
    /\ dirs \in {{"/"}, {"/", "/opt", "/opt/autocaliweb",
                          "/opt/autocaliweb/config", "/srv",
                          "/srv/calibre-library"}}
    /\ InitSettingsIdle
    /\ ACCEPT_ALL \in {0, 1}
    /\ ALLOW_LOW_SPACE = 0
    /\ InitLegacyNone
    /\ InitPlanIdle
    /\ InitExecIdle
    /\ svc = [systemctl |-> TRUE, active |-> FALSE, enabled |-> FALSE,
              stop_ok |-> TRUE]
    /\ service_user_exists = TRUE
    /\ worker = FALSE
    /\ attempt = 0
    /\ final_status = 0
    /\ stop_rc = -1
    /\ presence_checks = 0
    /\ signals = << >>
    /\ errexit = TRUE
    /\ unit_ops = << >>
    /\ entry_files = {}
    /\ exclude_dir = FALSE
    /\ exclude_lines = << >>
    /\ exclude_terminated = TRUE
    /\ exclude_at_entry = [lines |-> << >>, terminated |-> TRUE]
    /\ exclude_runs = 0
    /\ env_file = << >>
    /\ env_written_dir = ""
    /\ run_no = 1
    /\ repo \in [remote_differs : BOOLEAN, dirty : BOOLEAN]
    /\ git_ops = << >>
    /\ heartbeat = FALSE
    /\ trap_set = FALSE
    /\ pending_signal = FALSE
    /\ cmd_status = -1
    /\ signals_received = << >>
    /\ cmd = << >>
    /\ DEBUG_MODE = 0

NextGit ==
    \/ detect_and_classify_installation
    \/ check_directories

SpecGit == InitGit /\ [][NextGit]_vars

(***************************************************************************)
(* Specification of one call of run_with_progress.                         *)
(***************************************************************************)
\* Commands the installer wraps.
WrappedCommands ==
    { << "rsync", "-ah", "/app/autocaliweb/", "/opt/autocaliweb/" >>,
      << "rsync", "-ah", "/calibre-library/", "/srv/calibre-library/" >>,
      << "sudo", "-u", "acw", "python3", "-m", "venv", ".venv" >>,
      << "/opt/calibre/calibre_postinstall" >>,
      << "tar", "xf", "/tmp/calibre.txz", "-C", "/opt/calibre" >> }

InitProgress ==
    /\ pc = "rwp_start"
    /\ InitRunIdle
    /\ svc = [systemctl |-> TRUE, active |-> FALSE, enabled |-> FALSE,
              stop_ok |-> TRUE]
    /\ service_user_exists = TRUE
    /\ worker = FALSE
    /\ attempt = 0
    /\ final_status = 0
    /\ stop_rc = -1
    /\ presence_checks = 0
    /\ signals = << >>
    /\ errexit = TRUE
    /\ unit_ops = << >>
    /\ entry_files = {}
    /\ exclude_dir = FALSE
    /\ exclude_lines = << >>
    /\ exclude_terminated = TRUE
    /\ exclude_at_entry = [lines |-> << >>, terminated |-> TRUE]
    /\ exclude_runs = 0
    /\ env_file = << >>
    /\ env_written_dir = ""
    /\ run_no = 1
    /\ repo = [remote_differs |-> FALSE, dirty |-> FALSE]
    /\ git_ops = << >>
    /\ heartbeat = FALSE
    /\ trap_set = FALSE
    /\ pending_signal = FALSE
    /\ cmd_status = -1
    /\ signals_received = << >>
    /\ cmd \in WrappedCommands
    /\ DEBUG_MODE \in {0, 1}

NextProgress ==
    \/ rwp_fork
    \/ rwp_trap
    \/ rwp_command_starts
    \/ rwp_command_ends
    \/ rwp_kill
    \/ rwp_untrap
    \/ rwp_return
    \/ rwp_signal

SpecProgress == InitProgress /\ [][NextProgress]_vars

(***************************************************************************)
(* C1 *)
(***************************************************************************)
\* The flags the resolver is said to depend on, read off the host.
isGitRepo == GIT_CHECK_USER # ""
hasTemplate == host.template
sourcePresent == host.requirements \/ host.scriptInSource

\* C1 (as stated): the scenario is decided by (sourcePresent, isGitRepo,
\* hasTemplate) alone, and sourcePresent = FALSE gives no_source whatever
\* isGitRepo and hasTemplate are.
C1_AsStated ==
    pc = "classified" =>
        /\ (~sourcePresent => SCENARIO = "no_source")
        /\ (sourcePresent /\ isGitRepo /\ hasTemplate
                => SCENARIO = "git_repo_with_template")
        /\ (sourcePresent /\ isGitRepo /\ ~hasTemplate
                => SCENARIO = "git_repo_without_template")
        /\ (sourcePresent /\ ~isGitRepo /\ hasTemplate
                => SCENARIO = "extracted_with_template")
        /\ (sourcePresent /\ ~isGitRepo /\ ~hasTemplate
                => SCENARIO \in {"extracted_without_template",
                                 "outside_without_template"})

\* C1 (amended): the scenario is decided by (isGitRepo, hasTemplate, marker
\* file present, script inside a source tree); isGitRepo and hasTemplate are
\* looked at first, and no_source is returned exactly when all four are false.
C1_ScenarioTable ==
    pc = "classified" =>
        /\ (SCENARIO = "git_repo_with_template" <=> isGitRepo /\ hasTemplate)
        /\ (SCENARIO = "git_repo_without_template"
                <=> isGitRepo /\ ~hasTemplate)
        /\ (SCENARIO = "extracted_with_template"
                <=> ~isGitRepo /\ hasTemplate)
        /\ (SCENARIO = "extracted_without_template"
                <=> ~isGitRepo /\ ~hasTemplate /\ host.requirements)
        /\ (SCENARIO = "outside_without_template"
                <=> ~isGitRepo /\ ~hasTemplate /\ ~host.requirements
                    /\ host.scriptInSource)
        /\ (SCENARIO = "no_source"
                <=> ~isGitRepo /\ ~hasTemplate /\ ~host.requirements
                    /\ ~host.scriptInSource)

\* A classified run where a template exists but no source is present: the
\* scenario is extracted_with_template, not no_source.
C1_Witness ==
    /\ pc = "classified"
    /\ ~sourcePresent /\ hasTemplate /\ ~isGitRepo
    /\ SCENARIO = "extracted_with_template"

(***************************************************************************)
(* C2 - C4: update_app_db_settings                                         *)
(***************************************************************************)
SettingsUpdated == pc = "settings_done" /\ settings_rc = 0

InvalidLogfiles ==
    {"", "autocaliweb.log", "/tmp/autocaliweb.log", "/config/autocaliweb.log"}

InvalidAccessLogfiles ==
    {"", "access.log", "/tmp/access.log", "/config/access.log"}

KnownLegacyLibraryPaths == {"/", "/calibre", LEGACY_CALIBRE_LIB_DIR}

\* C3: config_calibre_dir is rewritten to the target library path exactly
\* when the stored value is empty, a known legacy absolute library path, or
\* a directory that does not exist; otherwise it is preserved.
C3_CalibreDirRewrite ==
    SettingsUpdated =>
        settings.config_calibre_dir =
            IF \/ settings_at_entry.config_calibre_dir = ""
               \/ settings_at_entry.config_calibre_dir
                      \in KnownLegacyLibraryPaths
               \/ settings_at_entry.config_calibre_dir \notin dirs
            THEN CALIBRE_LIB_DIR
            ELSE settings_at_entry.config_calibre_dir

PathColumns ==
    {"config_logfile", "config_access_logfile", "config_calibre_dir"}

BinaryColumns ==
    {"config_kepubifypath", "config_converterpath", "config_binariesdir",
     "config_rarfile_location"}

\* C4 (as stated): only the three path-valued columns may differ after the
\* update.
C4_AsStated ==
    SettingsUpdated =>
        \A c \in (DOMAIN settings) \ PathColumns :
            settings[c] = settings_at_entry[c]

\* C4 (amended): the update writes the three path-valued columns
\* (conditionally) and, always, the kepubify path, converter path, binaries
\* directory and rar location; every other column keeps its value.
C4_Frame ==
    /\ \A c \in (DOMAIN settings) \ (PathColumns \cup BinaryColumns) :
            settings[c] = settings_at_entry[c]
    /\ SettingsUpdated =>
        /\ settings.config_kepubifypath = KEPUBIFY_PATH(tools)
        /\ settings.config_converterpath = EBOOK_CONVERT_PATH(tools)
        /\ settings.config_binariesdir = Dirname(EBOOK_CONVERT_PATH(tools))
        /\ settings.config_rarfile_location = UNRAR_PATH

\* The update kept all three customised paths and still replaced the stored
\* kepubify path; the port and title are as before.
C4_Witness ==
    /\ SettingsUpdated
    /\ \A c \in PathColumns : settings[c] = settings_at_entry[c]
    /\ settings.config_kepubifypath # settings_at_entry.config_kepubifypath
    /\ settings.config_port = settings_at_entry.config_port
    /\ settings.config_calibre_web_title
          = settings_at_entry.config_calibre_web_title

(***************************************************************************)
(* C5 - C7: component selection                                            *)
(***************************************************************************)
Planned == pc # "plan" /\ pc # "classify" /\ pc # "settings"

InPlan(c) == \E i \in 1 .. Len(migrate_components) : migrate_components[i] = c

PathDiffers(c) == TargetOf(c) # LegacyDirOf(c)

WouldSelect == { c \in Components : \E i \in 1 .. Len(SelectComponents) :
                                        SelectComponents[i] = c }

SentinelAdded(c) == sentinel[c] = "absent" /\ sentinel'[c] # "absent"

SizeIfSelected(c) == IF InPlan(c) THEN du_mb[LegacyDirOf(c)] ELSE 0

SelectedTotalMb ==
    SizeIfSelected("app_source") + SizeIfSelected("config_data")
        + SizeIfSelected("calibre_library")

\* C8: the requirement is the sum of the whole-MB sizes of the legacy
\* directories of the selected components, times 1.20 (integer arithmetic:
\* total * 120 / 100); 1000 MB gives 1200 MB; directories of components not
\* in the plan contribute nothing.
C8_SpaceRequirement ==
    (Planned /\ migrate_components # << >>) =>
        /\ total_legacy_size_mb = SelectedTotalMb
        /\ required_for_migration_mb = (SelectedTotalMb * 120) \div 100
        /\ (SelectedTotalMb = 1000 => required_for_migration_mb = 1200)

\* Two selected components of 400 and 600 MB, a third directory of 600 MB
\* that is not in the plan: 1200 MB are required.
C8_Witness ==
    /\ Planned
    /\ Len(migrate_components) = 2
    /\ ~InPlan("calibre_library")
    /\ du_mb[LEGACY_CALIBRE_LIB_DIR] = 600
    /\ du_mb[LEGACY_INSTALL_DIR] = 400
    /\ du_mb[LEGACY_CONFIG_DIR] = 600
    /\ total_legacy_size_mb = 1000
    /\ required_for_migration_mb = 1200

RunContinues == exit_code = -1 /\ pc \in {"space_check", "confirm"}

RunAborted == exit_code = 1 /\ pc = "exited"

\* C9: when check_disk_space finds less space than required, the process
\* exits non-zero unless the low-space override is set, in which case the
\* run continues; with enough space the check passes in both modes.
C9_DiskSpaceCheck ==
    checks # << >> =>
        LET e == checks[Len(checks)]
        IN  /\ e.outcome # "df_failed" =>
                IF e.available_mb < e.required_mb /\ ALLOW_LOW_SPACE # 1
                THEN RunAborted
                ELSE RunContinues
            /\ \A i \in 1 .. Len(checks) - 1 :
                    \/ checks[i].available_mb >= checks[i].required_mb
                    \/ ALLOW_LOW_SPACE = 1

\* 1100 MB free against 1200 MB required, no override: exit status 1.
C9_Witness ==
    /\ checks # << >>
    /\ checks[Len(checks)].available_mb = 1100
    /\ checks[Len(checks)].required_mb = 1200
    /\ ALLOW_LOW_SPACE = 0
    /\ RunAborted

\* The mount points of the selected components' targets, each target
\* resolved to its nearest existing ancestor directory.
TargetMountPoints ==
    { MountPointOfTarget(TargetOf(c)) :
        c \in { x \in Components : InPlan(x) } } \ {""}

CheckedPaths == { checks[i].path : i \in 1 .. Len(checks) }

\* C10: no mount point is checked twice, only mount points of the selected
\* targets are checked, and once the checks are through every distinct
\* mount point has been checked.
C10_OncePerMountPoint ==
    /\ \A i, j \in 1 .. Len(checks) :
            i # j => checks[i].path # checks[j].path
    /\ CheckedPaths \subseteq TargetMountPoints
    /\ (Planned /\ pc = "confirm") => CheckedPaths = TargetMountPoints

\* Three selected components on two mount points: two checks.
C10_Witness ==
    /\ pc = "confirm"
    /\ Len(migrate_components) = 3
    /\ MountPointOfTarget(INSTALL_DIR) = MountPointOfTarget(CONFIG_DIR)
    /\ MountPointOfTarget(CALIBRE_LIB_DIR) # MountPointOfTarget(INSTALL_DIR)
    /\ Len(checks) = 2

(***************************************************************************)
(* C11 - C16: confirmation and the migration executor                      *)
(***************************************************************************)
EventIndices == 1 .. Len(events)

Happened(op, arg) == \E i \in EventIndices : events[i] = Event(op, arg)

\* Events that change the install, config or library directories, the
\* legacy trees or the operator's home directory.
MutationOps ==
    {"rename_venv", "mkdirs", "backup", "clean_bytecode", "transfer_ok",
     "transfer_failed", "chown", "settings"}

\* The operator was asked by the planner and did not answer y or Y.
Declined ==
    /\ events # << >>
    /\ events[Len(events)] = Event("prompt", "planner")
    /\ REPLY \notin {"y", "Y"}

\* C11: with a non-empty plan and without the unattended-accept flag the
\* planner asks before the executor runs, and when the operator declines the
\* process exits non-zero and nothing in the install, config or library
\* directories has been changed in that run.
C11_DeclineLeavesNoMutation ==
    /\ (ACCEPT_ALL # 1 /\ Happened("mkdirs", ""))
            => \E i, j \in EventIndices :
                    /\ i < j
                    /\ events[i] = Event("prompt", "planner")
                    /\ events[j] = Event("mkdirs", "")
    /\ Declined =>
            /\ pc = "exited"
            /\ exit_code = 1
            /\ \A i \in EventIndices : events[i].op \notin MutationOps

\* C12: with the unattended-accept flag set, no prompt is issued while a
\* migration is planned and executed, whatever the target directories hold.
C12_UnattendedNeverPrompts ==
    ACCEPT_ALL = 1 => \A i \in EventIndices : events[i].op # "prompt"

InExecutorLoop == component_index >= 1

\* C13: a failed AppSource transfer ends the run with a non-zero exit; no
\* failure while migrating ConfigData or CalibreLibrary ends the run, the
\* loop goes on to the remaining components.
C13_OnlyAppSourceFatal ==
    /\ Happened("transfer_failed", "app_source")
            => pc = "exited" /\ exit_code = 1
    /\ (InExecutorLoop /\ pc = "exited") => component = "app_source"
    /\ pc = "migrated" =>
            \A c \in {"config_data", "calibre_library"} :
                InPlan(c) => \/ Happened("transfer_ok", c)
                             \/ Happened("transfer_failed", c)
                             \/ Happened("prompt", c)

\* The sentinel file of each component in its legacy tree.
SentinelFileOf(c) ==
    CASE c = "app_source" -> "/app/autocaliweb/cps/__init__.py"
      [] c = "config_data" -> "/config/app.db"
      [] c = "calibre_library" -> "/calibre-library/metadata.db"

IsTransfer(e) == e.op \in {"transfer_ok", "transfer_failed"}

IsBackup(e) == e.op \in {"backup", "backup_failed"}

\* The owner of a component's target is changed only directly after that
\* component's successful transfer, and after every successful transfer.
ChownOnlyAfterSuccess ==
    /\ \A i \in EventIndices :
            events[i].op = "chown"
                => i > 1 /\ events[i - 1] = Event("transfer_ok", events[i].arg)
    /\ \A i \in EventIndices :
            events[i].op = "transfer_ok"
                => i < Len(events) /\ events[i + 1] = Event("chown", events[i].arg)

\* C14 (as stated): for every migrated component, its sentinel file is
\* backed up before its transfer starts, and its target changes owner only
\* after its transfer succeeded.
C14_AsStated ==
    /\ \A i \in EventIndices :
            IsTransfer(events[i])
                => \E j \in 1 .. i - 1 :
                        /\ IsBackup(events[j])
                        /\ events[j].arg = SentinelFileOf(events[i].arg)
    /\ ChownOnlyAfterSuccess

\* C14 (amended): the database files of ConfigData and CalibreLibrary are
\* backed up in one step before the first transfer (a copy that fails is
\* reported and does not stop the run); nothing of AppSource is backed up;
\* a target changes owner only directly after that component's successful
\* transfer, never after a failed or skipped one.
C14_BackupTransferChown ==
    /\ \A i \in EventIndices :
            (IsTransfer(events[i]) /\ events[i].arg # "app_source")
                => \E j \in 1 .. i - 1 :
                        /\ IsBackup(events[j])
                        /\ events[j].arg = SentinelFileOf(events[i].arg)
    /\ \A i, j \in EventIndices :
            (IsBackup(events[i]) /\ IsTransfer(events[j])) => i < j
    /\ \A i \in EventIndices :
            IsBackup(events[i])
                => events[i].arg # SentinelFileOf("app_source")
    /\ ChownOnlyAfterSuccess

\* The application was transferred and changed owner without any backup of
\* its own, the configuration was backed up and its transfer failed, so its
\* target never changed owner.
C14_Witness ==
    /\ pc = "migrated"
    /\ Happened("transfer_ok", "app_source")
    /\ Happened("chown", "app_source")
    /\ Happened("backup", "/config/app.db")
    /\ Happened("transfer_failed", "config_data")
    /\ ~Happened("chown", "config_data")

\* The files the backup step lists for the components of the plan.
ListedFiles ==
    (IF InPlan("config_data")
     THEN {"/config/app.db", "/config/acw.db", "/config/gdrive.db"} ELSE {})
    \cup (IF InPlan("calibre_library")
          THEN {"/calibre-library/metadata.db",
                "/calibre-library/.calnotes/notes.db"}
          ELSE {})

\* Those of them that exist as regular files.
ExistingListedFiles ==
    { f \in ListedFiles :
        \/ f = "/config/app.db" /\ sentinel["config_data"] # "absent"
        \/ f = "/calibre-library/metadata.db"
              /\ sentinel["calibre_library"] # "absent"
        \/ f \in legacy_extra }

BackupStepDone == component_index >= 1

\* C15: the backup step copies exactly the listed files that exist as
\* regular files (each copy attempted; kept when cp succeeds), skips the
\* missing ones, and goes on to the transfer step whichever files are
\* missing: the only way the step ends the run is a missing home directory.
C15_BackupSkipsMissing ==
    /\ BackupStepDone =>
            /\ { events[i].arg : i \in { j \in EventIndices :
                                            IsBackup(events[j]) } }
                    = ExistingListedFiles
            /\ backups = IF home_writable THEN ExistingListedFiles ELSE {}
    /\ (pc = "exited" /\ events # << >>
            /\ events[Len(events)] = Event("mkdirs", ""))
            => ~user_home /\ ListedFiles # {}
    /\ (user_home /\ Happened("mkdirs", "") /\ pc # "backup")
            => BackupStepDone

\* acw.db and notes.db are missing, gdrive.db is there: the three existing
\* files were copied and the executor is in its transfer loop.
C15_Witness ==
    /\ pc = "transfer"
    /\ InPlan("config_data") /\ InPlan("calibre_library")
    /\ legacy_extra = {"/config/gdrive.db"}
    /\ backups = {"/config/app.db", "/config/gdrive.db",
                  "/calibre-library/metadata.db"}

\* C16: no step of a migration run removes a legacy directory, a sentinel
\* file or another legacy database file; the only thing removed from a
\* legacy tree is the bytecode of the legacy application tree, in the
\* AppSource branch; when the executor has completed, the legacy
\* directories and the sentinel files of the plan still exist.
C16_LegacyTreesKept ==
    [][ /\ (LegacyDirs \cap dirs) \subseteq dirs'
        /\ sentinel' = sentinel
        /\ legacy_extra' = legacy_extra
        /\ (legacy_pyc' # legacy_pyc
                => legacy_pyc /\ ~legacy_pyc' /\ component = "app_source")
        /\ (pc' = "migrated"
                => /\ LegacyDirs \subseteq dirs'
                   /\ \A c \in Components :
                        InPlan(c) => sentinel'[c] # "absent") ]_vars

\* All three components were transferred, bytecode was purged from the
\* legacy application tree, and the legacy directories and sentinels remain.
C16_Witness ==
    /\ pc = "migrated"
    /\ \A c \in Components : Happened("transfer_ok", c)
    /\ Happened("clean_bytecode", "deleted")
    /\ ~legacy_pyc
    /\ LegacyDirs \subseteq dirs
    /\ \A c \in Components : sentinel[c] = "data"

(***************************************************************************)
(* C28: directories before transfers                                       *)
(***************************************************************************)
TargetDirsExist == {INSTALL_DIR, CONFIG_DIR, CALIBRE_LIB_DIR} \subseteq dirs

\* C28: whenever the transfer of a component has started, the target
\* installation, configuration and library directories exist and
\* create_acw_directories completed before that transfer.
C28_DirsBeforeTransfer ==
    /\ (pc \in {"transfer", "settings", "settings_done"} => TargetDirsExist)
    /\ \A i \in EventIndices :
            IsTransfer(events[i]) =>
                /\ TargetDirsExist
                /\ \E j \in 1 .. (i - 1) : events[j] = Event("mkdirs", "")

\* A component was transferred into directories the run created.
C28_Witness ==
    /\ Happened("transfer_ok", "config_data")
    /\ Happened("mkdirs", "")
    /\ TargetDirsExist

(***************************************************************************)
(* C17 - C20: the environment prober                                       *)
(***************************************************************************)
Probed == pc # "classify"

\* C17: once the prober has run, no unit file gives existing = update =
\* legacy = FALSE; a unit file without environment file gives existing,
\* update and legacy TRUE; a unit file with environment file gives existing
\* and update TRUE and legacy FALSE.
C17_InstallationState ==
    Probed =>
        /\ (~host.unitFile =>
                /\ ~EXISTING_INSTALLATION
                /\ ~IS_UPDATE
                /\ ~IS_LEGACY_MIGRATION)
        /\ (host.unitFile /\ ~host.envFile =>
                /\ EXISTING_INSTALLATION
                /\ IS_UPDATE
                /\ IS_LEGACY_MIGRATION)
        /\ (host.unitFile /\ host.envFile =>
                /\ EXISTING_INSTALLATION
                /\ IS_UPDATE
                /\ ~IS_LEGACY_MIGRATION)

\* All three kinds of host are classified; here a host without unit file and
\* without environment file, which is a fresh install and not a legacy one.
C17_Witness ==
    /\ pc = "classified"
    /\ ~host.unitFile /\ ~host.envFile
    /\ ~EXISTING_INSTALLATION /\ ~IS_UPDATE /\ ~IS_LEGACY_MIGRATION

\* C18: for every combination of unit file, environment file and
\* environment-file content, detect_and_classify_installation completes with
\* an installation state and a scenario; it never ends the run.
C18_ProbingNeverAborts ==
    Probed => /\ pc = "classified"
              /\ exit_code = -1
              /\ SCENARIO # ""

\* The users the git check may run as.
CandidateUsers ==
    {LEGACY_SERVICE_USER, "root", SERVICE_USER, REAL_USER}
        \cup (IF IS_LEGACY_MIGRATION /\ host.legacyDir
              THEN {host.legacyOwner} ELSE {})

\* The path handed to check_if_git_repo by the prober.
PassedPath ==
    IF host.unitFile
    THEN (IF host.envFile THEN host.envInstallDir ELSE LEGACY_INSTALL_DIR)
    ELSE ""

\* C19: isGitRepo is true iff the path passed to check_if_git_repo (on a
\* legacy installation the legacy install directory) is a git working tree
\* readable by some candidate user.
C19_ProbeUsesPassedPath ==
    pc = "classified" =>
        (isGitRepo <=> /\ PassedPath \in host.gitTrees
                       /\ CandidateUsers \cap host.gitReadableBy # {})

\* The candidates in priority order, before deduplication.
PriorityOrder ==
    << LEGACY_SERVICE_USER >>
        \o (IF IS_LEGACY_MIGRATION /\ host.legacyDir
            THEN << host.legacyOwner >> ELSE << >>)
        \o << "root", SERVICE_USER, REAL_USER >>

\* Position of the first occurrence of u in PriorityOrder.
Rank(u) ==
    CHOOSE i \in 1 .. Len(PriorityOrder) :
        /\ PriorityOrder[i] = u
        /\ \A j \in 1 .. i - 1 : PriorityOrder[j] # u

\* The users for which the probe made by the code succeeds.
ProbeOk == IF INSTALL_DIR \in host.gitTrees THEN host.gitReadableBy ELSE {}

\* C20: the probes are made in the priority order legacy service account,
\* owner of the legacy directory, root, service account, invoking user, each
\* user at most once; every probe but the last one failed; the owner is the
\* first candidate whose probe succeeds and nobody is tried after it; when
\* no probe succeeds the owner is empty, isGitRepo is false and the run
\* continues.
C20_CandidateOrder ==
    (Probed /\ probed # << >>) =>
        /\ \A i \in 1 .. Len(probed) : probed[i] \in CandidateUsers
        /\ \A i, j \in 1 .. Len(probed) :
                i < j => Rank(probed[i]) < Rank(probed[j])
        /\ \A i \in 1 .. Len(probed) :
                \A u \in CandidateUsers :
                    Rank(u) < Rank(probed[i])
                        => \E j \in 1 .. i - 1 : probed[j] = u
        /\ \A i \in 1 .. Len(probed) - 1 : probed[i] \notin ProbeOk
        /\ IF probed[Len(probed)] \in ProbeOk
           THEN GIT_CHECK_USER = probed[Len(probed)]
           ELSE /\ GIT_CHECK_USER = ""
                /\ ~isGitRepo
                /\ \A u \in CandidateUsers :
                        \E i \in 1 .. Len(probed) : probed[i] = u
                /\ pc = "classified"
                /\ exit_code = -1

\* abc and the owner alice failed, root succeeded: root is the owner and
\* neither the service account nor the invoking user was tried.
C20_Witness ==
    /\ Probed
    /\ probed = << "abc", "alice", "root" >>
    /\ GIT_CHECK_USER = "root"
    /\ SERVICE_USER = "acw"
    /\ "acw" \in ProbeOk

\* No candidate can read the tree: the owner is empty and the run continues.
C20_WitnessNoOwner ==
    /\ pc = "classified"
    /\ Len(probed) = 4
    /\ GIT_CHECK_USER = ""
    /\ INSTALL_DIR \in host.gitTrees


(***************************************************************************)
(* C23 - C25, C30: the service stop routines                               *)
(***************************************************************************)
\* The routine has ended, by returning or by ending the run.
StopEnded == pc \in {"stop_returned", "exited"}

\* Round 1 sends SIGTERM, every later round SIGKILL.
TermThenKill ==
    \A i \in 1 .. Len(signals) :
        signals[i] = IF i = 1 THEN "TERM" ELSE "KILL"

\* C23: stop_autocaliweb_service sends at most three rounds of signals,
\* SIGTERM in the first and SIGKILL in the others, checks again after every
\* round, and reports success as soon as no process is left: success after
\* two rounds means no third round, and no process at the start means no
\* signal.
C23_KillLoopBound ==
    /\ Len(signals) <= 3
    /\ TermThenKill
    /\ presence_checks <= Len(signals) + 1
    /\ (pc = "stop_loop" => worker /\ presence_checks = Len(signals) + 1)
    /\ (StopEnded =>
            /\ presence_checks = Len(signals) + 1
            /\ (~worker => stop_rc = 0)
            /\ (worker => stop_rc = 1 /\ Len(signals) = 3))

\* The same statement where the call is not subject to set -e.
C23_WithoutErrexit == ~errexit => C23_KillLoopBound

\* The processes are gone after exactly two rounds, the call being one
\* whose status is tested.
C23_WitnessTwoRounds ==
    /\ pc = "stop_returned"
    /\ stop_rc = 0
    /\ signals = << "TERM", "KILL" >>

\* C24: a stop routine that gives up with worker processes alive reports
\* an error and the run goes on: the executor still reaches its backup and
\* transfer steps.
C24_StopFailureDoesNotAbort ==
    (stop_rc > 0 /\ pc = "exited") => BackupStepDone

\* The run reaches the backup step after a stop that returned success.
C24_WitnessAfterStop ==
    /\ stop_rc = 0
    /\ Len(signals) > 0
    /\ pc = "transfer"

\* The requests ultimate_service_stop makes to the service manager.
ExpectedUnitOps ==
    (IF svc.systemctl /\ svc.active
     THEN << UnitOp("stop", SYSTEMCTL_SERVICE_NAME) >> ELSE << >>)
    \o (IF svc.systemctl /\ svc.enabled
        THEN << UnitOp("disable", SYSTEMCTL_SERVICE_NAME) >> ELSE << >>)

C25_Bounds ==
    /\ Len(signals) <= 30
    /\ presence_checks <= 31
    /\ (pc = "stop_unit" => signals = << >> /\ presence_checks = 0)
    /\ (pc # "stop_unit" => unit_ops = ExpectedUnitOps)
    /\ (pc = "kill_loop" => presence_checks = Len(signals))
    /\ (pc = "stop_returned" =>
            /\ presence_checks = Len(signals) + 1
            /\ (worker => Len(signals) = 30))

\* C25 as stated: the unit is stopped and disabled before the kill loop and
\* no more than 30 presence checks are made.
C25_AsStated ==
    /\ presence_checks <= 30
    /\ (pc # "stop_unit" =>
            unit_ops = << UnitOp("stop", SYSTEMCTL_SERVICE_NAME),
                          UnitOp("disable", SYSTEMCTL_SERVICE_NAME) >>)

\* C25: ultimate_service_stop asks for the unit to be stopped if it is
\* active and disabled if it is enabled before the kill loop starts; it
\* makes at most 30 kill rounds, each after a presence check, and one last
\* presence check (31 at most); it returns as soon as a check finds no
\* process, and it always returns, also when the worker is started again
\* after every kill.
C25_StopTerminates == []C25_Bounds /\ <>(pc = "stop_returned")

\* The routine gives up: every check of the loop found the worker and the
\* last check still finds it.
C25_Witness ==
    /\ pc = "stop_returned"
    /\ Len(signals) = 30
    /\ presence_checks = 31
    /\ worker
    /\ stop_rc = 1

\* C30: ultimate_service_stop returns success whenever its last presence
\* check found no process, also after a failed systemctl stop, and failure
\* only when its last check still found one.
C30_StatusAgreesWithLastCheck ==
    pc = "stop_returned" => (stop_rc = 0 <=> ~worker)

\* The same statement for the returns made from inside the loop.
C30_InsideLoop ==
    (pc = "stop_returned" /\ presence_checks <= 30) => (stop_rc = 0 <=> ~worker)


(***************************************************************************)
(* C26: start of the services                                              *)
(***************************************************************************)
StartedUnits ==
    { unit_ops[i].unit : i \in { j \in 1 .. Len(unit_ops) :
                                    unit_ops[j].op = "start" } }

OptionalUnits == UnitSet \ {"autocaliweb"}

PatternSet == { ExcludePatterns[i] : i \in 1 .. Len(ExcludePatterns) }

Occurrences(text, lines) ==
    Cardinality({ i \in 1 .. Len(lines) : lines[i] = text })

\* The lines the file had at entry are still its first lines.
EntryLinesKept ==
    /\ Len(exclude_lines) >= Len(exclude_at_entry.lines)
    /\ \A i \in 1 .. Len(exclude_at_entry.lines) :
            exclude_lines[i] = exclude_at_entry.lines[i]

\* C22: after one pass or several of git_exclude_file_path over the same
\* exclude file every fixed pattern is a line of the file exactly once, and
\* the lines the file had before are all still there, unaltered.
C22_ExcludeIdempotent ==
    (exclude_dir /\ pc \in {"exclude", "exited"}
     /\ (exclude_runs >= 1 \/ pc = "exited")) =>
        /\ \A p \in PatternSet : Occurrences(p, exclude_lines) = 1
        /\ EntryLinesKept

\* A line of the file that a pattern matches as a regular expression
\* without being that pattern.
NearMissAtEntry ==
    \E p \in PatternSet : \E i \in 1 .. Len(exclude_at_entry.lines) :
        /\ MatchesWholeLine(p, exclude_at_entry.lines[i])
        /\ exclude_at_entry.lines[i] # p

\* The same statement for files that end with a newline and hold no line
\* that a pattern matches by its dot.
C22_OnPlainFiles ==
    (exclude_at_entry.terminated /\ ~NearMissAtEntry) => C22_ExcludeIdempotent

\* Three passes over a file that held one of the patterns and another line.
C22_WitnessThreePasses ==
    /\ exclude_runs = 3
    /\ exclude_at_entry.lines = << "*.log", "/config" >>
    /\ Len(exclude_lines) = 10


(***************************************************************************)
(* C29: the environment file across two runs                               *)
(***************************************************************************)
\* C29: in the run that follows one which completed
\* setup_permanent_environment_variables with install directory D, the
\* prober finds the environment file, classifies the installation as an
\* existing modern one (no legacy migration) and recovers exactly D as the
\* current install path.
C29_EnvRoundTrip ==
    run_no = 2 =>
        /\ host.envFile
        /\ host.envHasKey
        /\ host.envInstallDir = env_written_dir
        /\ (pc # "classify" =>
                /\ EXISTING_INSTALLATION
                /\ IS_UPDATE
                /\ ~IS_LEGACY_MIGRATION
                /\ PathPassedToGitCheck(host, EXISTING_INSTALLATION,
                                        IS_LEGACY_MIGRATION,
                                        SCRIPT_SOURCE_DIR) = env_written_dir)

\* The second run classified a host whose first run used a directory with
\* an equals sign in its name, and was itself given another directory.
C29_Witness ==
    /\ run_no = 2
    /\ pc = "classified"
    /\ env_written_dir = "/opt/acw=prod"
    /\ INSTALL_DIR = "/opt/autocaliweb"
    /\ ~IS_LEGACY_MIGRATION


(***************************************************************************)
(* C21: the account of the git commands                                    *)
(***************************************************************************)
\* The account whose probe succeeded in check_if_git_repo: the last one
\* tried.
ProbeWinner == IF probed = << >> THEN "" ELSE probed[Len(probed)]

UpdateOpNames == {"fetch", "rev_parse", "diff", "stash_push", "stash_pop",
                  "reset"}

\* C21: in a git_repo_* scenario every git fetch, rev-parse, diff, stash
\* and reset of check_directories (and its two git config calls) runs as
\* the account recorded in GIT_CHECK_USER, which is the account whose
\* detection probe succeeded.
C21_GitOpsAsCheckUser ==
    \A i \in 1 .. Len(git_ops) :
        /\ IsGitScenario(SCENARIO)
        /\ GIT_CHECK_USER # ""
        /\ GIT_CHECK_USER = ProbeWinner
        /\ git_ops[i].user = GIT_CHECK_USER

\* An update with stash, run as an account that is not the service account.
C21_Witness ==
    /\ pc = "dirs_checked"
    /\ GIT_CHECK_USER # SERVICE_USER
    /\ \A op \in UpdateOpNames :
            \E i \in 1 .. Len(git_ops) : git_ops[i].op = op


(***************************************************************************)
(* C27: the progress task                                                  *)
(***************************************************************************)
\* C27: when run_with_progress has returned or the shell has ended, the
\* background progress task has been killed, whether the command
\* succeeded, failed, or the shell received SIGINT or SIGTERM.
C27_HeartbeatNeverOutlives ==
    pc \in {"rwp_returned", "exited"} => ~heartbeat

\* The same statement for every way out once the trap is installed.
C27_OnceTrapInstalled ==
    (pc \in {"rwp_returned", "exited"} /\ cmd_status # -1) => ~heartbeat

\* A signal arrived while the command ran, the command failed, and the
\* call returned with the task killed.
C27_WitnessSignalled ==
    /\ pc = "rwp_returned"
    /\ cmd_status = 1
    /\ signals_received # << >>
    /\ ~heartbeat

====
